---- MODULE Spec2Model ----
(***************************************************************************)
(* A model of the nuwa-digital-twin analysis scripts:                      *)
(*   - retry_ee_operation          (python-scripts/ndvi_calculator.py)     *)
(*   - analyze_deforestation       (python-scripts/deforestation_analysis  *)
(*                                  and scripts/local-analysis/analyze_farm)*)
(*   - calculate_carbon_baseline   (python-scripts/carbon_baseline and     *)
(*                                  scripts/local-analysis/analyze_farm)   *)
(*   - _normalize_geometry         (scripts/local-analysis/analyze_farm)   *)
(* Each component has its own specification (SpecRetry, SpecDeforest,      *)
(* SpecCarbon, SpecGeom); the variables of the other components keep their *)
(* initial values.                                                         *)
(***************************************************************************)
EXTENDS Integers, Sequences, FiniteSets, TLC

VARIABLES
    \* ---- retry_ee_operation -------------------------------------------
    r_pc,            \* "idle", "try", "sleep", "returned", "raised"
    max_retries,     \* argument
    delay,           \* argument
    operation_name,  \* argument
    attempt,         \* loop variable of `for attempt in range(max_retries)`
    last_error,      \* local last_error (NoError for None)
    wait_time,       \* local wait_time of the pending sleep
    r_result,        \* value returned to the caller (None while running)
    r_raised,        \* exception delivered to the caller (NoError if none)
    calls,           \* history: number of invocations of operation()
    outcomes,        \* history: what each invocation produced
    waits,           \* history: the arguments of time.sleep, in order
    log,             \* history: the lines printed to stderr, in order
    \* ---- analyze_deforestation ----------------------------------------
    d_pc,            \* "idle", "returned", "raised"
    d_variant,       \* "local" (analyze_farm.py) or "script" (deforestation_analysis.py)
    d_in,            \* history: what the remote provider answered to this call
    d_result,        \* the dictionary returned (NoDeforestResult if none)
    d_raised,        \* the exception that left the function (NoError if none)
    \* ---- calculate_carbon_baseline ------------------------------------
    c_pc,            \* "idle", "returned", "raised"
    c_variant,       \* "local" (analyze_farm.py) or "script" (carbon_baseline.py)
    c_in,            \* history: the arguments and the provider's answers
    c_locals,        \* history: the unrounded locals when the function returned
    c_result,        \* the dictionary returned (NoCarbonResult if none)
    c_raised,        \* the exception that left the function (NoError if none)
    \* ---- _normalize_geometry ------------------------------------------
    g_pc,            \* "input", "done", "again"
    geometry,        \* the argument
    g_result,        \* the dictionary returned, or the exception raised
    g_again,         \* what normalizing the returned dictionary gives
    \* ---- load_farm_json ------------------------------------------------
    l_pc,            \* "input", "returned", "raised"
    json_path,       \* the file the argument names
    l_result,        \* the normalized record returned, or the exception raised
    \* ---- the per-farm drivers: process_farm, analyze_farm.main ---------
    f_pc,            \* "idle", "done"
    f_in,            \* history: the driver, the file, the flags, the answers
    f_out,           \* what the driver produced
    \* ---- batch_process.main ----------------------------------------------
    b_pc,            \* "start", "loop", "summary", "done", "exit"
    input_dir,       \* the directory named on the command line
    continue_on_error, \* --continue-on-error
    farm_files,      \* the sorted list of farm files
    b_next,          \* position in farm_files of the next file
    started,         \* history: names of the files handed to process_farm
    results,         \* the rows collected so far
    writes,          \* history: the output files written, in order
    output_dir,      \* the output files: path, and the farm whose document it holds
    summary,         \* the JSON summary and the footer of the table
    asked            \* history: what the environment answered for each file

rvars == <<r_pc, max_retries, delay, operation_name, attempt, last_error,
           wait_time, r_result, r_raised, calls, outcomes, waits, log>>

dvars == <<d_pc, d_variant, d_in, d_result, d_raised>>

cvars == <<c_pc, c_variant, c_in, c_locals, c_result, c_raised>>

gvars == <<g_pc, geometry, g_result, g_again>>

lvars == <<l_pc, json_path, l_result>>

fvars == <<f_pc, f_in, f_out>>

bvars == <<b_pc, input_dir, continue_on_error, farm_files, b_next, started,
           results, writes, output_dir, summary, asked>>

vars == <<rvars, dvars, cvars, gvars, lvars, fvars, bvars>>

\* ---------------------------------------------------------------------
\* Bounds of the model
\* ---------------------------------------------------------------------
MaxRetriesBound == 3
MaxDelay == 2
MaxYears == 2
MaxTrees == 2
MaxPolygons == 2
MaxFarms == 3
MaxAnalyzed == 60
MaxNdviHundredths == 150

\* Python's None
None == "None"

\* ---------------------------------------------------------------------
\* Text: an error message is a sequence of one-character strings
\* ---------------------------------------------------------------------
UpperChars == <<"A","B","C","D","E","F","G","H","I","J","K","L","M",
                "N","O","P","Q","R","S","T","U","V","W","X","Y","Z">>
LowerChars == <<"a","b","c","d","e","f","g","h","i","j","k","l","m",
                "n","o","p","q","r","s","t","u","v","w","x","y","z">>

\* str.lower() on one character
LowerChar(c) ==
    IF \E i \in 1..Len(UpperChars) : UpperChars[i] = c
    THEN LowerChars[CHOOSE i \in 1..Len(UpperChars) : UpperChars[i] = c]
    ELSE c

\* str.lower()
Lower(s) == [i \in 1..Len(s) |-> LowerChar(s[i])]

\* Python's `sub in s` on strings
Contains(sub, s) ==
    \E i \in 1..(Len(s) - Len(sub) + 1) : SubSeq(s, i, i + Len(sub) - 1) = sub

KwTimeout   == <<"t","i","m","e","o","u","t">>
KwRateLimit == <<"r","a","t","e"," ","l","i","m","i","t">>
KwQuota     == <<"q","u","o","t","a">>

\* The messages the modelled operation can fail with
MsgTimeout   == <<"T","i","m","e","o","u","t">>
MsgRateLimit == <<"R","a","t","e"," ","L","i","m","i","t">>
MsgQuota     == <<"q","u","o","t","a"," ","h","i","t">>
MsgTimedOut  == <<"t","i","m","e","d"," ","o","u","t">>
MsgNotFound  == <<"n","o","t"," ","f","o","u","n","d">>

Messages == {MsgTimeout, MsgRateLimit, MsgQuota, MsgTimedOut, MsgNotFound}

\* ---------------------------------------------------------------------
\* Exceptions and the outcomes of operation()
\* ---------------------------------------------------------------------
EEException(m) == [cls |-> "EEException", msg |-> m]
OtherException(m) == [cls |-> "Exception", msg |-> m]
\* last_error = None / no exception delivered
NoError == [cls |-> "None", msg |-> <<>>]
RuntimeError(name, n) ==
    [cls |-> "RuntimeError",
     msg |-> <<name, " failed after ", ToString(n), " attempts">>]

OperationErrors == {EEException(m) : m \in Messages}
                   \cup {OtherException(m) : m \in Messages}
OperationValues == {"v1", "v2"}

Ok(v) == [ok |-> TRUE, value |-> v, error |-> NoError]
Fail(e) == [ok |-> FALSE, value |-> None, error |-> e]
Outcomes == {Ok(v) : v \in OperationValues} \cup {Fail(e) : e \in OperationErrors}

OperationNames == {"size", "ndvi"}

\* ---------------------------------------------------------------------
\* retry_ee_operation
\* ---------------------------------------------------------------------
\* range(max_retries)
AttemptRange_Mutant(n) == 0..(IF n < 1 THEN 0 ELSE n - 1)
AttemptRange(n) == 0..(n - 1)

\* the classification of line 54, on error_msg = str(e).lower()
IsRetryableMsg_Mutant(error_msg) == TRUE
IsRetryableMsg(error_msg) ==
    \/ Contains(KwTimeout, error_msg)
    \/ Contains(KwRateLimit, error_msg)
    \/ Contains(KwQuota, error_msg)

\* the exception classes the first handler (`except ee.EEException`) catches
CaughtAsEE(e) == e.cls = "EEException"

\* line 55: another attempt follows this one
HasNextAttempt_Mutant(a, n) == a < n - 2
HasNextAttempt(a, n) == a < n - 1

\* line 56: delay * (2 ** attempt)
RECURSIVE Pow2(_)
Pow2(k) == IF k <= 0 THEN 1 ELSE 2 * Pow2(k - 1)

BackoffWait_Mutant(d, a) == d * 2 * a
BackoffWait(d, a) == d * Pow2(a)

\* the exception a bare `raise` in the handler delivers
Reraise_Mutant(e) == OtherException(e.msg)
Reraise(e) == e

LogLine(kind, name, n, of, m) ==
    [line |-> kind, operation_name |-> name, n |-> n, of |-> of, e |-> m]

\* lines 73-76: the code after the loop
AfterLoop(le, name, n) ==
    IF le # NoError THEN le ELSE RuntimeError(name, n)

\* The call: arguments are bound, last_error = None, and the loop is entered
\* (or, when range(max_retries) is empty, lines 73-76 run at once).
RetryCall(mr, dl, name) ==
    /\ r_pc = "idle"
    /\ max_retries' = mr
    /\ delay' = dl
    /\ operation_name' = name
    /\ last_error' = NoError
    /\ attempt' = 0
    /\ IF 0 \in AttemptRange(mr)
       THEN /\ r_pc' = "try"
            /\ r_raised' = NoError
       ELSE /\ r_pc' = "raised"
            /\ r_raised' = AfterLoop(NoError, name, mr)
    /\ UNCHANGED <<wait_time, r_result, calls, outcomes, waits, log>>
    /\ UNCHANGED <<dvars, cvars, gvars, lvars, fvars, bvars>>

\* One iteration of the loop body, lines 47-71, up to the sleep
Attempt(o) ==
    /\ r_pc = "try"
    /\ calls' = calls + 1
    /\ outcomes' = Append(outcomes, o)
    /\ IF o.ok
       THEN \* line 48: return operation()
            /\ r_pc' = "returned"
            /\ r_result' = o.value
            /\ UNCHANGED <<last_error, wait_time, r_raised, log>>
       ELSE IF CaughtAsEE(o.error)
       THEN /\ last_error' = o.error
            /\ r_result' = r_result
            /\ IF IsRetryableMsg(Lower(o.error.msg))
               THEN IF HasNextAttempt(attempt, max_retries)
                    THEN /\ wait_time' = BackoffWait(delay, attempt)
                         /\ log' = log \o
                              <<LogLine("warning", operation_name, attempt + 1,
                                        max_retries, o.error.msg),
                                LogLine("retrying_in", operation_name,
                                        BackoffWait(delay, attempt), 0, <<>>)>>
                         /\ r_pc' = "sleep"
                         /\ UNCHANGED r_raised
                    ELSE /\ log' = Append(log,
                                LogLine("failed_after", operation_name,
                                        max_retries, max_retries, o.error.msg))
                         /\ r_raised' = Reraise(o.error)
                         /\ r_pc' = "raised"
                         /\ UNCHANGED wait_time
               ELSE /\ log' = Append(log,
                           LogLine("failed", operation_name, 0, 0, o.error.msg))
                    /\ r_raised' = Reraise(o.error)
                    /\ r_pc' = "raised"
                    /\ UNCHANGED wait_time
       ELSE \* lines 68-71: except Exception
            /\ log' = Append(log,
                   LogLine("unexpected", operation_name, 0, 0, o.error.msg))
            /\ r_raised' = Reraise(o.error)
            /\ r_pc' = "raised"
            /\ UNCHANGED <<last_error, wait_time, r_result>>
    /\ UNCHANGED <<max_retries, delay, operation_name, attempt, waits>>
    /\ UNCHANGED <<dvars, cvars, gvars, lvars, fvars, bvars>>

\* lines 59-60 with the loop variable stuck
Sleep_Mutant ==
    /\ r_pc = "sleep"
    /\ waits' = Append(waits, wait_time)
    /\ r_pc' = "try"
    /\ UNCHANGED <<max_retries, delay, operation_name, attempt, last_error,
                   wait_time, r_result, r_raised, calls, outcomes, log>>
    /\ UNCHANGED <<dvars, cvars, gvars, lvars, fvars, bvars>>

\* lines 59-60: time.sleep(wait_time); continue
Sleep ==
    /\ r_pc = "sleep"
    /\ waits' = Append(waits, wait_time)
    /\ IF attempt + 1 \in AttemptRange(max_retries)
       THEN /\ attempt' = attempt + 1
            /\ r_pc' = "try"
            /\ UNCHANGED r_raised
       ELSE /\ attempt' = attempt
            /\ r_pc' = "raised"
            /\ r_raised' = AfterLoop(last_error, operation_name, max_retries)
    /\ UNCHANGED <<max_retries, delay, operation_name, last_error, wait_time,
                   r_result, calls, outcomes, log>>
    /\ UNCHANGED <<dvars, cvars, gvars, lvars, fvars, bvars>>

\* ---------------------------------------------------------------------
\* Exact arithmetic: a number is a fraction [n, d] with d > 0, in lowest
\* terms.  Python computes in binary floating point; the model computes
\* the exact value, which the floats follow on the modelled inputs.
\* ---------------------------------------------------------------------
Abs(x) == IF x < 0 THEN -x ELSE x

RECURSIVE Gcd(_, _)
Gcd(a, b) == IF b = 0 THEN a ELSE Gcd(b, a % b)

Rat(n, d) ==
    LET g == Gcd(Abs(n), d) IN
    IF n = 0 THEN [n |-> 0, d |-> 1] ELSE [n |-> n \div g, d |-> d \div g]

RInt(k) == [n |-> k, d |-> 1]

\* products and sums reduce before they multiply, to stay in 32 bits
RMul(a, b) ==
    LET g1 == IF a.n = 0 THEN 1 ELSE Gcd(Abs(a.n), b.d)
        g2 == IF b.n = 0 THEN 1 ELSE Gcd(Abs(b.n), a.d)
    IN  Rat((a.n \div g1) * (b.n \div g2), (a.d \div g2) * (b.d \div g1))
RInv(b) == IF b.n > 0 THEN [n |-> b.d, d |-> b.n] ELSE [n |-> -b.d, d |-> -b.n]
RDiv(a, b) == RMul(a, RInv(b))
RAdd(a, b) ==
    LET g == Gcd(a.d, b.d)
    IN  Rat(a.n * (b.d \div g) + b.n * (a.d \div g), (a.d \div g) * b.d)
RSub(a, b) == RAdd(a, [n |-> -b.n, d |-> b.d])
RLess(a, b) == RSub(a, b).n < 0
RLeq(a, b) == RSub(a, b).n <= 0
RMax(a, b) == IF RLess(a, b) THEN b ELSE a
RMin(a, b) == IF RLess(b, a) THEN b ELSE a

\* long division: `places` further decimal digits of (q + r/d)
RECURSIVE Digits(_, _, _, _)
Digits(q, r, d, places) ==
    IF places <= 0 THEN [q |-> q, r |-> r]
    ELSE Digits(q * 10 + ((r * 10) \div d), (r * 10) % d, d, places - 1)

\* round(x, places): the result counted in units of 10^-places, ties to even
Round(x, places) ==
    LET qr == Digits(x.n \div x.d, x.n % x.d, x.d, places)
    IN  IF qr.r > x.d - qr.r THEN qr.q + 1
        ELSE IF qr.r < x.d - qr.r THEN qr.q
        ELSE IF qr.q % 2 = 0 THEN qr.q ELSE qr.q + 1

\* ---------------------------------------------------------------------
\* analyze_deforestation: the remote provider
\* ---------------------------------------------------------------------
\* the answer to one getInfo(): a number, null, or an exception
Answer(v) == [status |-> "ok", value |-> v, error |-> NoError]
AnswerNull == [status |-> "null", value |-> 0, error |-> NoError]
AnswerFail(e) == [status |-> "fail", value |-> 0, error |-> e]

ProviderErrors == {EEException(MsgTimedOut), EEException(MsgTimeout)}

\* pixel sums of the baseline cover and of the loss
InitialSums == {0, 20000, 20020}
LossSums == {0, 1000, 1002}

InitialAnswers == {Answer(v) : v \in InitialSums} \cup {AnswerNull}
                  \cup {AnswerFail(e) : e \in ProviderErrors}
LossAnswers == {Answer(v) : v \in LossSums} \cup {AnswerNull}
               \cup {AnswerFail(e) : e \in ProviderErrors}
ThumbAnswers == {Answer(1)} \cup {AnswerFail(e) : e \in ProviderErrors}

\* what one calendar year of the range answers: the size of the collection
\* and the thumbnail of its composite
YearAnswers ==
    {[size |-> sz, thumb |-> th] :
        sz \in {Answer(0), Answer(2)} \cup {AnswerFail(e) : e \in ProviderErrors},
        th \in ThumbAnswers}

YearOf(i) == 2020 + i

NoDeforestResult ==
    [deforestationPercent |-> 0, areaLostHa |-> 0, initialForestHa |-> 0,
     compliant |-> FALSE, historicalImages |-> <<>>,
     changeDetectionUrl |-> FALSE, warning |-> FALSE, returned |-> FALSE]

\* EUDR threshold test
Compliant_Mutant(p) == RLeq(p, RInt(5))
Compliant(p) == RLess(p, RInt(5))

\* (loss_ha / initial_forest_ha * 100) if initial_forest_ha > 0 else 0
DeforestationPercent_Mutant(loss_ha, initial_ha) ==
    IF RLess(RInt(0), initial_ha) THEN RDiv(loss_ha, initial_ha) ELSE RInt(0)
DeforestationPercent(loss_ha, initial_ha) ==
    IF RLess(RInt(0), initial_ha)
    THEN RMul(RDiv(loss_ha, initial_ha), RInt(100))
    ELSE RInt(0)

\* the first failure among the answers the function awaits, in call order
RECURSIVE FirstFailure(_)
FirstFailure(answers) ==
    IF answers = <<>> THEN NoError
    ELSE IF Head(answers).status = "fail" THEN Head(answers).error
    ELSE FirstFailure(Tail(answers))

\* the getInfo()/getThumbURL() calls of the historical-images loop of the
\* local analyzer, in order: the thumbnail is asked only for a non-empty year
RECURSIVE YearCalls(_)
YearCalls(ys) ==
    IF ys = <<>> THEN <<>>
    ELSE (IF Head(ys).size.status = "ok" /\ Head(ys).size.value > 0
          THEN <<Head(ys).size, Head(ys).thumb>>
          ELSE <<Head(ys).size>>) \o YearCalls(Tail(ys))

\* historical_images of the local analyzer (no answer failed)
RECURSIVE HistoricalLocal(_, _)
HistoricalLocal(ys, i) ==
    IF i > Len(ys) THEN <<>>
    ELSE (IF ys[i].size.value > 0
          THEN <<[year |-> YearOf(i), url |-> ys[i].thumb.value]>>
          ELSE <<>>) \o HistoricalLocal(ys, i + 1)

\* historical_images of the script: a year whose query raises is skipped
RECURSIVE HistoricalScript(_, _)
HistoricalScript_Mutant(ys, i) ==
    IF i > Len(ys) THEN <<>>
    ELSE IF ys[i].size.status = "ok" /\ ys[i].size.value = 0 THEN <<>>
    ELSE (IF /\ ys[i].size.status = "ok"
             /\ ys[i].size.value > 0
             /\ ys[i].thumb.status = "ok"
          THEN <<[year |-> YearOf(i), url |-> ys[i].thumb.value]>>
          ELSE <<>>) \o HistoricalScript(ys, i + 1)
HistoricalScript(ys, i) ==
    IF i > Len(ys) THEN <<>>
    ELSE (IF /\ ys[i].size.status = "ok"
             /\ ys[i].size.value > 0
             /\ ys[i].thumb.status = "ok"
          THEN <<[year |-> YearOf(i), url |-> ys[i].thumb.value]>>
          ELSE <<>>) \o HistoricalScript(ys, i + 1)

\* `.get(key, 0) or 0` of the local analyzer
GetOrZero(a) == IF a.status = "ok" THEN a.value ELSE 0

\* scripts/local-analysis/analyze_farm.py, analyze_deforestation
AnalyzeDeforestationLocal(initial, loss, change, ys) ==
    /\ d_pc = "idle"
    /\ d_variant' = "local"
    /\ d_in' = [initial |-> initial, loss |-> loss, change |-> change, years |-> ys]
    /\ LET failure == FirstFailure(<<initial, loss, change>> \o YearCalls(ys))
           initial_forest_ha == Rat(GetOrZero(initial), 10000)
           loss_ha == Rat(GetOrZero(loss), 10000)
           deforestation_percent == DeforestationPercent(loss_ha, initial_forest_ha)
       IN  IF failure # NoError
           THEN \* nothing in the function catches: the exception leaves it
                /\ d_pc' = "raised"
                /\ d_raised' = failure
                /\ d_result' = NoDeforestResult
           ELSE /\ d_pc' = "returned"
                /\ d_raised' = NoError
                /\ d_result' =
                     [deforestationPercent |-> Round(deforestation_percent, 2),
                      areaLostHa |-> Round(loss_ha, 2),
                      initialForestHa |-> Round(initial_forest_ha, 2),
                      compliant |-> Compliant(deforestation_percent),
                      historicalImages |-> HistoricalLocal(ys, 1),
                      changeDetectionUrl |-> TRUE,
                      warning |-> FALSE,
                      returned |-> TRUE]
    /\ UNCHANGED <<rvars, cvars, gvars, lvars, fvars, bvars>>

\* the default values of the script's `except Exception`
DefaultResult ==
    [deforestationPercent |-> 0, areaLostHa |-> 0, initialForestHa |-> 0,
     compliant |-> TRUE, historicalImages |-> <<>>,
     changeDetectionUrl |-> FALSE, warning |-> TRUE, returned |-> TRUE]

\* python-scripts/deforestation_analysis.py, analyze_deforestation
AnalyzeDeforestationScript(initial, loss, change, ys) ==
    /\ d_pc = "idle"
    /\ d_variant' = "script"
    /\ d_in' = [initial |-> initial, loss |-> loss, change |-> change, years |-> ys]
    /\ d_pc' = "returned"
    /\ d_raised' = NoError
    /\ LET \* a failed getInfo(), or None * 0.09 (TypeError), ends in the handler
           failed == \/ initial.status # "ok"
                     \/ loss.status # "ok"
           total_forest_ha == Rat(initial.value * 9, 10000)
           area_lost_ha == Rat(loss.value * 9, 10000)
           deforestation_percent == DeforestationPercent(area_lost_ha, total_forest_ha)
       IN  d_result' =
             IF failed THEN DefaultResult
             ELSE [deforestationPercent |-> Round(deforestation_percent, 2),
                   areaLostHa |-> Round(area_lost_ha, 2),
                   initialForestHa |-> Round(total_forest_ha, 2),
                   compliant |-> Compliant(deforestation_percent),
                   historicalImages |-> HistoricalScript(ys, 1),
                   changeDetectionUrl |-> (change.status = "ok"),
                   warning |-> FALSE,
                   returned |-> TRUE]
    /\ UNCHANGED <<rvars, cvars, gvars, lvars, fvars, bvars>>

\* ---------------------------------------------------------------------
\* calculate_carbon_baseline
\* ---------------------------------------------------------------------
\* WOOD_DENSITY, in g/cm3
WoodDensitySpecies ==
    {"Pinus caribaea", "Pinus patula", "Eucalyptus", "Eucalyptus grandis",
     "Acacia", "Acacia mangium", "Coffea arabica", "Coffea", "Inga",
     "Cordia alliodora", "Cedrela odorata", "Swietenia macrophylla",
     "Tectona grandis", "default"}

WOOD_DENSITY(species) ==
    CASE species = "Pinus caribaea" -> Rat(51, 100)
      [] species = "Pinus patula" -> Rat(45, 100)
      [] species = "Eucalyptus" -> Rat(65, 100)
      [] species = "Eucalyptus grandis" -> Rat(55, 100)
      [] species = "Acacia" -> Rat(58, 100)
      [] species = "Acacia mangium" -> Rat(52, 100)
      [] species = "Coffea arabica" -> Rat(55, 100)
      [] species = "Coffea" -> Rat(55, 100)
      [] species = "Inga" -> Rat(52, 100)
      [] species = "Cordia alliodora" -> Rat(44, 100)
      [] species = "Cedrela odorata" -> Rat(42, 100)
      [] species = "Swietenia macrophylla" -> Rat(54, 100)
      [] species = "Tectona grandis" -> Rat(55, 100)
      [] species = "default" -> Rat(60, 100)

\* WOOD_DENSITY.get(species, WOOD_DENSITY['default'])
DensityOf(species) ==
    IF species \in WoodDensitySpecies THEN WOOD_DENSITY(species)
    ELSE WOOD_DENSITY("default")

\* 0.0673 * (x ** 0.976) in kg, to the nearest kilogram, for the values
\* x = rho * dbh_cm^2 * height_m of the modelled measurements
\* (999.99, 250.09, 250.02 and 100.01 kg)
ChaveAgbKg(x) ==
    CASE x = Rat(1881792, 100) -> RInt(1000)
      [] x = Rat(45486, 10) -> RInt(250)
      [] x = Rat(45472, 10) -> RInt(250)
      [] x = Rat(17784, 10) -> RInt(100)

Tree(species, dbh_cm, height_m, count) ==
    [species |-> species, dbh_cm |-> dbh_cm, height_m |-> height_m, count |-> count]

\* the measurements an inventory of the model is made of
Measurements ==
    {Tree("Swietenia macrophylla", 44, 18, 5),
     Tree("Unlisted", 19, 21, 45),
     Tree("Unlisted", 19, 21, 40),
     Tree("Inga", 0, 5, 3),
     Tree("Inga", 10, -1, 20)}

\* tree_inventory: None, or a list of measurements
NoInventory == [present |-> FALSE, trees |-> <<>>]
Inventory(ts) == [present |-> TRUE, trees |-> ts]
Inventories ==
    {NoInventory} \cup
    UNION {{Inventory(ts) : ts \in [1..n -> Measurements]} : n \in 0..MaxTrees}

\* `tree_inventory and len(tree_inventory) > 0`
HasInventory(inv) == inv.present /\ Len(inv.trees) > 0

\* the measurement is skipped by `if dbh_cm <= 0 or height_m <= 0: continue`
Skipped(tree) == tree.dbh_cm <= 0 \/ tree.height_m <= 0

\* agb_kg of one tree of the measurement
TreeAgbKg(tree) ==
    ChaveAgbKg(RMul(RMul(DensityOf(tree.species), RInt(tree.dbh_cm * tree.dbh_cm)),
                    RInt(tree.height_m)))

\* calculate_agb_from_field_data (and the loop of the local variant)
RECURSIVE FieldData(_, _, _)
FieldData_Mutant(trees, total_agb_kg, trees_analyzed) ==
    IF trees = <<>>
    THEN [total_agb_kg |-> total_agb_kg,
          total_agb_tonnes |-> RDiv(total_agb_kg, RInt(1000)),
          trees_analyzed |-> trees_analyzed]
    ELSE IF Skipped(Head(trees)) \/ Head(trees).count > 10
    THEN FieldData(Tail(trees), total_agb_kg, trees_analyzed)
    ELSE FieldData(Tail(trees),
                   RAdd(total_agb_kg,
                        RMul(TreeAgbKg(Head(trees)), RInt(Head(trees).count))),
                   trees_analyzed + Head(trees).count)
FieldData_CountsSkipped(trees, total_agb_kg, trees_analyzed) ==
    IF trees = <<>>
    THEN [total_agb_kg |-> total_agb_kg,
          total_agb_tonnes |-> RDiv(total_agb_kg, RInt(1000)),
          trees_analyzed |-> trees_analyzed]
    ELSE IF Skipped(Head(trees))
    THEN FieldData(Tail(trees), total_agb_kg, trees_analyzed + Head(trees).count)
    ELSE FieldData(Tail(trees),
                   RAdd(total_agb_kg,
                        RMul(TreeAgbKg(Head(trees)), RInt(Head(trees).count))),
                   trees_analyzed + Head(trees).count)
FieldData(trees, total_agb_kg, trees_analyzed) ==
    IF trees = <<>>
    THEN [total_agb_kg |-> total_agb_kg,
          total_agb_tonnes |-> RDiv(total_agb_kg, RInt(1000)),
          trees_analyzed |-> trees_analyzed]
    ELSE IF Skipped(Head(trees))
    THEN FieldData(Tail(trees), total_agb_kg, trees_analyzed)
    ELSE FieldData(Tail(trees),
                   RAdd(total_agb_kg,
                        RMul(TreeAgbKg(Head(trees)), RInt(Head(trees).count))),
                   trees_analyzed + Head(trees).count)

calculate_agb_from_field_data(tree_inventory) == FieldData(tree_inventory, RInt(0), 0)

\* the two-branch NDVI rule
AgbPerHaFromNdvi_Mutant(ndvi_mean) ==
    IF RLess(Rat(3, 10), ndvi_mean)
    THEN RMax(RInt(20), RMul(RInt(150), RMul(ndvi_mean, ndvi_mean)))
    ELSE RMax(RInt(5), RMul(RInt(50), ndvi_mean))
AgbPerHaFromNdvi(ndvi_mean) ==
    IF RLess(Rat(3, 10), ndvi_mean)
    THEN RMax(RInt(20), RMin(RInt(200), RMul(RInt(150), RMul(ndvi_mean, ndvi_mean))))
    ELSE RMax(RInt(5), RMul(RInt(50), ndvi_mean))

\* the provider's answers: area in m2, collection size, NDVI statistics
AreaAnswers == {Answer(0), Answer(10000), Answer(25000)}
               \cup {AnswerFail(e) : e \in ProviderErrors}
SizeAnswers == {Answer(0), Answer(3)} \cup {AnswerFail(e) : e \in ProviderErrors}

\* ndvi_stats: the 'NDVI' mean, a dictionary without the key, or an exception
NdviValues == {Rat(-1, 5), Rat(1, 5), Rat(3, 10), Rat(31, 100), Rat(1, 2), Rat(6, 5)}
NdviAnswer(v) == [status |-> "ok", value |-> v, error |-> NoError]
NdviMissing == [status |-> "missing", value |-> RInt(0), error |-> NoError]
NdviFail(e) == [status |-> "fail", value |-> RInt(0), error |-> e]
NdviAnswers == {NdviAnswer(v) : v \in NdviValues} \cup {NdviMissing}
               \cup {NdviFail(e) : e \in ProviderErrors}

\* ndvi_stats.get('NDVI', 0.5)
NdviMean(a) == IF a.status = "ok" THEN a.value ELSE Rat(1, 2)

\* the label the satellite helper gives a zero-image estimate
DefaultMethodLabel == "default_estimation"

\* calculate_agb_from_satellite of carbon_baseline.py; `raised` is the first
\* exception of its remote calls
calculate_agb_from_satellite(area, size, ndvi) ==
    LET area_ha == Rat(area.value, 10000)
        failure == FirstFailure(
                      IF size.status = "ok" /\ size.value # 0
                      THEN <<area, size, ndvi>> ELSE <<area, size>>)
        agb_per_ha == AgbPerHaFromNdvi(NdviMean(ndvi))
    IN  IF failure # NoError
        THEN [raised |-> failure, total_agb_tonnes |-> RInt(0), agb_per_ha |-> RInt(0),
              area_ha |-> area_ha, method |-> "none"]
        ELSE IF size.value = 0
        THEN [raised |-> NoError, total_agb_tonnes |-> RMul(area_ha, RInt(50)),
              agb_per_ha |-> RInt(50), area_ha |-> area_ha,
              method |-> DefaultMethodLabel]
        ELSE [raised |-> NoError, total_agb_tonnes |-> RMul(agb_per_ha, area_ha),
              agb_per_ha |-> agb_per_ha, area_ha |-> area_ha,
              method |-> "ndvi_correlation"]

NoCarbonLocals ==
    [total_agb |-> RInt(0), agb_per_ha |-> RInt(0), total_carbon |-> RInt(0),
     total_carbon_with_bgb |-> RInt(0), total_co2e |-> RInt(0),
     field_weight |-> RInt(0), branch |-> "none", sat_method |-> "none"]

NoCarbonResult ==
    [baselineCarbonTCO2e |-> 0, agbTonnesPerHa |-> 0, totalAgbTonnes |-> 0,
     totalCarbonTonnes |-> 0, areaHa |-> 0, methodology |-> "none",
     confidence |-> "none", treesAnalyzed |-> 0,
     abovegroundBiomass |-> 0, belowgroundBiomass |-> 0, returned |-> FALSE]

\* the conversion AGB -> carbon -> carbon with belowground -> CO2e
CarbonOf(total_agb) == RMul(total_agb, Rat(47, 100))
WithBelowground(total_carbon) == RMul(total_carbon, Rat(12, 10))
Co2eOf_Mutant(total_carbon_with_bgb) == RMul(total_carbon_with_bgb, Rat(367, 100))
Co2eOf(total_carbon_with_bgb) == RMul(total_carbon_with_bgb, Rat(44, 12))

\* the result dictionary both variants build: tonnes in hundredths,
\* areaHa in ten-thousandths
CarbonResult(total_agb, agb_per_ha, area_ha, methodology, confidence, trees_analyzed) ==
    LET total_carbon == CarbonOf(total_agb)
        total_carbon_with_bgb == WithBelowground(total_carbon)
        total_co2e == Co2eOf(total_carbon_with_bgb)
    IN  [baselineCarbonTCO2e |-> Round(total_co2e, 2),
         agbTonnesPerHa |-> Round(agb_per_ha, 2),
         totalAgbTonnes |-> Round(total_agb, 2),
         totalCarbonTonnes |-> Round(total_carbon_with_bgb, 2),
         areaHa |-> Round(area_ha, 4),
         methodology |-> methodology,
         confidence |-> confidence,
         treesAnalyzed |-> trees_analyzed,
         abovegroundBiomass |-> Round(total_carbon, 2),
         belowgroundBiomass |-> Round(RMul(total_carbon, Rat(2, 10)), 2),
         returned |-> TRUE]

CarbonLocals(total_agb, agb_per_ha, field_weight, branch, sat_method) ==
    [total_agb |-> total_agb, agb_per_ha |-> agb_per_ha,
     total_carbon |-> CarbonOf(total_agb),
     total_carbon_with_bgb |-> WithBelowground(CarbonOf(total_agb)),
     total_co2e |-> Co2eOf(WithBelowground(CarbonOf(total_agb))),
     field_weight |-> field_weight, branch |-> branch, sat_method |-> sat_method]

\* total_agb / area_ha if area_ha > 0 else 0
PerHa(total_agb, area_ha) ==
    IF RLess(RInt(0), area_ha) THEN RDiv(total_agb, area_ha) ELSE RInt(0)

\* the methodology entry of the script's result
ScriptMethodology(method, branch, sat_method) == method

\* min(0.7, 0.3 + trees_analyzed / 100)
FieldWeight_Mutant(trees_analyzed) ==
    RMin(Rat(7, 10), Rat(trees_analyzed, 100))
FieldWeight(trees_analyzed) ==
    RMin(Rat(7, 10), RAdd(Rat(3, 10), Rat(trees_analyzed, 100)))

\* confidence of the field branch
FieldConfidence_Mutant(trees_analyzed) == IF trees_analyzed > 10 THEN "high" ELSE "medium"
FieldConfidence(trees_analyzed) == IF trees_analyzed >= 10 THEN "high" ELSE "medium"

\* python-scripts/carbon_baseline.py, calculate_carbon_baseline
CalculateCarbonBaselineScript(method, inv, area, size, ndvi) ==
    /\ c_pc = "idle"
    /\ c_variant' = "script"
    /\ c_in' = [method |-> method, tree_inventory |-> inv, area |-> area,
                size |-> size, ndvi |-> ndvi]
    /\ LET area_ha == Rat(area.value, 10000)
           branch == IF method = "field" /\ HasInventory(inv) THEN "field"
                     ELSE IF method = "hybrid" /\ HasInventory(inv) THEN "hybrid"
                     ELSE "satellite"
           field_result == calculate_agb_from_field_data(inv.trees)
           sat_result == calculate_agb_from_satellite(area, size, ndvi)
           field_weight == FieldWeight(field_result.trees_analyzed)
           sat_weight == RSub(RInt(1), field_weight)
           total_agb ==
              CASE branch = "field" -> field_result.total_agb_tonnes
                [] branch = "hybrid" ->
                      RAdd(RMul(field_result.total_agb_tonnes, field_weight),
                           RMul(sat_result.total_agb_tonnes, sat_weight))
                [] branch = "satellite" -> sat_result.total_agb_tonnes
           agb_per_ha == IF branch = "satellite" THEN sat_result.agb_per_ha
                         ELSE PerHa(total_agb, area_ha)
           trees_analyzed == IF branch = "satellite" THEN 0
                             ELSE field_result.trees_analyzed
           confidence == CASE branch = "field" -> FieldConfidence(trees_analyzed)
                           [] branch = "hybrid" -> "high"
                           [] branch = "satellite" -> "medium"
           \* area().getInfo() of line 202, then the helper's remote calls
           failure == IF area.status = "fail" THEN area.error
                      ELSE IF branch = "field" THEN NoError
                      ELSE sat_result.raised
       IN  IF failure # NoError
           THEN /\ c_pc' = "raised"
                /\ c_raised' = failure
                /\ c_result' = NoCarbonResult
                /\ c_locals' = NoCarbonLocals
           ELSE /\ c_pc' = "returned"
                /\ c_raised' = NoError
                /\ c_locals' = CarbonLocals(total_agb, agb_per_ha,
                                  IF branch = "hybrid" THEN field_weight ELSE RInt(0),
                                  branch,
                                  IF branch = "field" THEN "none" ELSE sat_result.method)
                /\ c_result' = CarbonResult(total_agb, agb_per_ha, area_ha,
                                  ScriptMethodology(method, branch, sat_result.method),
                                  confidence, trees_analyzed)
    /\ UNCHANGED <<rvars, dvars, gvars, lvars, fvars, bvars>>

\* scripts/local-analysis/analyze_farm.py, calculate_carbon_baseline
CalculateCarbonBaselineLocal(inv, area, size, ndvi) ==
    /\ c_pc = "idle"
    /\ c_variant' = "local"
    /\ c_in' = [method |-> "auto", tree_inventory |-> inv, area |-> area,
                size |-> size, ndvi |-> ndvi]
    /\ LET area_ha == Rat(area.value, 10000)
           method == IF HasInventory(inv) THEN "field" ELSE "satellite"
           field_result == calculate_agb_from_field_data(inv.trees)
           zero_images == size.value = 0
           sat_agb_per_ha == IF zero_images THEN RInt(50)
                             ELSE AgbPerHaFromNdvi(NdviMean(ndvi))
           total_agb == IF method = "field" THEN field_result.total_agb_tonnes
                        ELSE RMul(sat_agb_per_ha, area_ha)
           agb_per_ha == IF method = "field" THEN PerHa(total_agb, area_ha)
                         ELSE sat_agb_per_ha
           trees_analyzed == IF method = "field" THEN field_result.trees_analyzed ELSE 0
           confidence == IF method = "field" THEN FieldConfidence(trees_analyzed)
                         ELSE IF zero_images THEN "low" ELSE "medium"
           failure == IF method = "field" THEN FirstFailure(<<area>>)
                      ELSE FirstFailure(
                              IF size.status = "ok" /\ size.value # 0
                              THEN <<area, size, ndvi>> ELSE <<area, size>>)
       IN  IF failure # NoError
           THEN /\ c_pc' = "raised"
                /\ c_raised' = failure
                /\ c_result' = NoCarbonResult
                /\ c_locals' = NoCarbonLocals
           ELSE /\ c_pc' = "returned"
                /\ c_raised' = NoError
                /\ c_locals' = CarbonLocals(total_agb, agb_per_ha, RInt(0), method,
                                  IF method = "field" THEN "none"
                                  ELSE IF zero_images THEN "default" ELSE "ndvi")
                /\ c_result' = CarbonResult(total_agb, agb_per_ha, area_ha,
                                  method, confidence, trees_analyzed)
    /\ UNCHANGED <<rvars, dvars, gvars, lvars, fvars, bvars>>

\* ---------------------------------------------------------------------
\* _normalize_geometry
\* ---------------------------------------------------------------------
\* a JSON value of a coordinates member: a number, a list, or null
Num(v) == [k |-> "num", n |-> v, items |-> <<>>]
List(xs) == [k |-> "list", n |-> 0, items |-> xs]
Null == [k |-> "null", n |-> 0, items |-> <<>>]

\* positions (the third has an elevation), rings and polygons of the model
Pos00 == List(<<Num(0), Num(0)>>)
Pos40 == List(<<Num(4), Num(0)>>)
Pos44z == List(<<Num(4), Num(4), Num(7)>>)
Pos11z == List(<<Num(1), Num(1), Num(9)>>)
Pos21 == List(<<Num(2), Num(1)>>)
Pos22 == List(<<Num(2), Num(2)>>)
Pos66 == List(<<Num(6), Num(6)>>)
Pos86 == List(<<Num(8), Num(6)>>)
Pos88z == List(<<Num(8), Num(8), Num(3)>>)

RingOuter == List(<<Pos00, Pos40, Pos44z, Pos00>>)
RingHole == List(<<Pos11z, Pos21, Pos22, Pos11z>>)
RingFar == List(<<Pos66, Pos86, Pos88z, Pos66>>)
RingFlat == List(<<Pos00, Pos40, Pos22, Pos00>>)

ModelPositions == {Pos00, Pos44z, Pos66}
ModelRings == {RingOuter, RingHole, RingFar, RingFlat}
ModelPolygons ==
    {List(<<RingOuter>>), List(<<RingOuter, RingHole>>), List(<<RingFar>>), List(<<>>),
     List(<<RingFlat>>)}
ModelMultiPolygons ==
    UNION {{List(ps) : ps \in [1..n -> ModelPolygons]} : n \in 0..MaxPolygons}

ModelCoordinates ==
    {Null, Num(0), Num(5)} \cup ModelPositions \cup ModelRings
    \cup ModelPolygons \cup ModelMultiPolygons

\* geometry.get('type'): None when the key is missing
ModelTypes == {None, "", "Polygon", "MultiPolygon", "Point", "LineString"}

\* the arguments: GeoJSON-like dictionaries, and values that are no dictionary
Geometries ==
    {[isdict |-> TRUE, type |-> t, coordinates |-> c] :
        t \in ModelTypes, c \in ModelCoordinates}
    \cup {[isdict |-> FALSE, type |-> None, coordinates |-> c] :
             c \in {Null, RingOuter}}

\* Python truthiness of a JSON value
Truthy(v) ==
    CASE v.k = "num" -> v.n # 0
      [] v.k = "list" -> v.items # <<>>
      [] v.k = "null" -> FALSE

\* coords[:2]
FirstTwo_Mutant(xs) == Tail(xs)
FirstTwo(xs) == SubSeq(xs, 1, IF Len(xs) < 2 THEN Len(xs) ELSE 2)

RECURSIVE _strip_z_coordinates(_)
_strip_z_coordinates(coords) ==
    IF coords.k = "list" /\ coords.items # <<>> /\ coords.items[1].k = "num"
    THEN List(FirstTwo(coords.items))
    ELSE IF coords.k = "list"
    THEN List([i \in 1..Len(coords.items) |-> _strip_z_coordinates(coords.items[i])])
    ELSE coords

ValueError(text) == [cls |-> "ValueError", msg |-> <<text>>]
TypeError(text) == [cls |-> "TypeError", msg |-> <<text>>]

Returned(type, coords) ==
    [ok |-> TRUE, type |-> type, coordinates |-> coords, raised |-> NoError]
Raised(e) == [ok |-> FALSE, type |-> None, coordinates |-> Null, raised |-> e]
NoGeometryResult == Raised(NoError)

\* the polygon a MultiPolygon is reduced to: coords_2d[0]
RepresentativePolygon_Mutant(coords_2d) == coords_2d.items[Len(coords_2d.items)]
RepresentativePolygon(coords_2d) == coords_2d.items[1]

_normalize_geometry(g) ==
    IF ~g.isdict
    THEN Raised(ValueError("Geometria invalida: se esperaba un objeto GeoJSON"))
    ELSE IF g.type = None \/ g.type = "" \/ g.coordinates.k = "null"
    THEN Raised(ValueError("Geometria invalida: falta 'type' o 'coordinates'"))
    ELSE LET coords_2d == _strip_z_coordinates(g.coordinates) IN
         IF g.type = "MultiPolygon"
         THEN IF ~Truthy(coords_2d)
              THEN Raised(ValueError("MultiPolygon invalido: sin poligonos"))
              ELSE IF coords_2d.k # "list"
              THEN Raised(TypeError("'int' object is not subscriptable"))
              ELSE IF coords_2d.items[1].k # "list"
              THEN Raised(ValueError("MultiPolygon invalido: sin poligonos"))
              ELSE Returned("Polygon", RepresentativePolygon(coords_2d))
         ELSE Returned(g.type, coords_2d)

\* the function applied to the argument
NormalizeGeometry ==
    /\ g_pc = "input"
    /\ g_pc' = "done"
    /\ g_result' = _normalize_geometry(geometry)
    /\ UNCHANGED <<geometry, g_again>>
    /\ UNCHANGED <<rvars, dvars, cvars, lvars, fvars, bvars>>

\* the function applied to the dictionary it returned
NormalizeAgain ==
    /\ g_pc = "done"
    /\ g_result.ok
    /\ g_pc' = "again"
    /\ g_again' = _normalize_geometry(
                      [isdict |-> TRUE, type |-> g_result.type,
                       coordinates |-> g_result.coordinates])
    /\ UNCHANGED <<geometry, g_result>>
    /\ UNCHANGED <<rvars, dvars, cvars, lvars, fvars, bvars>>

\* ---------------------------------------------------------------------
\* load_farm_json
\* ---------------------------------------------------------------------
\* the value under a 'geometry' or 'polygon' key: missing or null, an
\* empty value ({}), or a non-empty value
SlotNone == [kind |-> "none", g |-> [isdict |-> FALSE, type |-> None, coordinates |-> Null]]
SlotEmpty == [kind |-> "empty", g |-> [isdict |-> TRUE, type |-> None, coordinates |-> Null]]
SlotValue(g) == [kind |-> "value", g |-> g]

Geom(type, coords) == [isdict |-> TRUE, type |-> type, coordinates |-> coords]

\* the geometries of the farm files of the model
FarmGeometries ==
    {[isdict |-> FALSE, type |-> None, coordinates |-> RingOuter],
     Geom(None, List(<<RingFlat>>)),
     Geom("Polygon", Null),
     Geom("Polygon", List(<<RingFlat>>)),
     Geom("Polygon", List(<<RingOuter, RingHole>>)),
     Geom("MultiPolygon", List(<<>>)),
     Geom("MultiPolygon", List(<<List(<<RingFar>>), List(<<RingFlat>>)>>)),
     Geom("Point", Pos44z)}

FarmSlots == {SlotNone, SlotEmpty} \cup {SlotValue(g) : g \in FarmGeometries}

\* `not geometry`
IsFalsy(slot) == slot.kind # "value"

\* a GeoJSON Feature: its geometry and the name among its properties
Feature(slot, name) == [geometry |-> slot, name |-> name]
FarmNames == {None, "Finca"}
FarmFeatures == {Feature(sl, n) : sl \in FarmSlots, n \in FarmNames}
OtherFeatures == {Feature(SlotValue(Geom("Polygon", List(<<RingFar>>))), None)}

NoFeatures == [present |-> FALSE, items |-> <<>>]
Features(fs) == [present |-> TRUE, items |-> fs]
NoPolygonKey == [isfeature |-> FALSE, slot |-> SlotNone]

\* the parsed document of a farm file
Doc(kind, features, geom, polygon, name, farmId, projectId, treeInventory) ==
    [kind |-> kind, features |-> features, geometry |-> geom,
     polygon |-> polygon, name |-> name, farmId |-> farmId,
     projectId |-> projectId, treeInventory |-> treeInventory]

FarmIds == {None, "F-1"}
ProjectIds == {None, "P-1"}
FarmInventories ==
    {NoInventory, Inventory(<<Tree("Swietenia macrophylla", 44, 18, 5)>>)}

\* the documents without their identifiers
DocShapes ==
    {[kind |-> "FeatureCollection", features |-> fs, geometry |-> SlotNone,
      polygon |-> NoPolygonKey] :
        fs \in {NoFeatures, Features(<<>>)}
               \cup {Features(<<f>>) : f \in FarmFeatures}
               \cup {Features(<<f, o>>) : f \in FarmFeatures, o \in OtherFeatures}}
    \cup {[kind |-> "Feature", features |-> NoFeatures, geometry |-> sl,
           polygon |-> NoPolygonKey] : sl \in FarmSlots}
    \cup {[kind |-> "custom", features |-> NoFeatures, geometry |-> SlotNone,
           polygon |-> [isfeature |-> isf, slot |-> sl]] :
             isf \in BOOLEAN, sl \in FarmSlots}
    \cup {[kind |-> k, features |-> NoFeatures, geometry |-> SlotNone,
           polygon |-> NoPolygonKey] : k \in {"other", "list"}}

Docs ==
    {Doc(sh.kind, sh.features, sh.geometry, sh.polygon, n, fid, pid, NoInventory) :
        sh \in DocShapes, n \in FarmNames, fid \in FarmIds, pid \in ProjectIds}

\* file name stems, as characters
Stems == {<<"a">>, <<"A">>, <<"m", "i", " ", "F">>}

File(exists, stem, ext, data) ==
    [exists |-> exists, stem |-> stem, ext |-> ext, data |-> data]

\* filename_stem.replace(' ', '-')
RECURSIVE ReplaceSpaces(_)
ReplaceSpaces(stem) ==
    IF stem = <<>> THEN <<>>
    ELSE <<IF Head(stem) = " " THEN "-" ELSE Head(stem)>> \o ReplaceSpaces(Tail(stem))

\* f"farm-{filename_stem.replace(' ', '-').lower()}"
GeneratedFarmId(stem) == <<"farm-">> \o Lower(ReplaceSpaces(stem))

\* an identifier given in the document, as characters
IdChars(id) == <<id>>

FileNotFoundError(text) == [cls |-> "FileNotFoundError", msg |-> <<text>>]

NoPolygon == [type |-> None, coordinates |-> Null]
LoadRaised(e) ==
    [ok |-> FALSE, polygon |-> NoPolygon, name |-> <<>>, farmId |-> <<>>,
     treeInventory |-> NoInventory, raised |-> e]
NoLoadResult == LoadRaised(NoError)

\* the `normalized` dictionary
Normalized(polygon, name, farmId, treeInventory) ==
    [ok |-> TRUE, polygon |-> polygon, name |-> name, farmId |-> farmId,
     treeInventory |-> treeInventory, raised |-> NoError]

\* the fallbacks for name and farmId, and the dictionary returned
Normalize_Mutant(file, geom_result, name) ==
    Normalized([type |-> geom_result.type, coordinates |-> geom_result.coordinates],
               file.stem, GeneratedFarmId(file.stem), file.data.treeInventory)
Normalize(file, geom_result, name) ==
    LET data == file.data IN
    IF ~geom_result.ok THEN LoadRaised(geom_result.raised)
    ELSE Normalized(
           [type |-> geom_result.type, coordinates |-> geom_result.coordinates],
           IF name # None THEN IdChars(name)
           ELSE IF data.name # None THEN IdChars(data.name) ELSE file.stem,
           IF data.farmId # None THEN IdChars(data.farmId)
           ELSE IF data.projectId # None THEN IdChars(data.projectId)
           ELSE GeneratedFarmId(file.stem),
           data.treeInventory)

load_farm_json(file) ==
    LET data == file.data IN
    IF ~file.exists
    THEN LoadRaised(FileNotFoundError("Archivo no encontrado"))
    ELSE IF data.kind = "FeatureCollection"
    THEN IF data.features.items = <<>>
         THEN LoadRaised(ValueError("FeatureCollection vacia: no hay features"))
         ELSE LET feature == data.features.items[1] IN
              IF IsFalsy(feature.geometry)
              THEN LoadRaised(ValueError("FeatureCollection invalida: feature sin geometria"))
              ELSE Normalize(file, _normalize_geometry(feature.geometry.g), feature.name)
    ELSE IF data.kind = "Feature"
    THEN IF IsFalsy(data.geometry)
         THEN LoadRaised(ValueError("Feature invalido: falta geometria"))
         ELSE Normalize(file, _normalize_geometry(data.geometry.g), None)
    ELSE IF data.kind = "custom"
    THEN IF data.polygon.isfeature
         THEN IF IsFalsy(data.polygon.slot)
              THEN LoadRaised(ValueError("Feature en 'polygon' invalido: falta geometria"))
              ELSE Normalize(file, _normalize_geometry(data.polygon.slot.g), data.name)
         ELSE Normalize(file, _normalize_geometry(data.polygon.slot.g), data.name)
    ELSE LoadRaised(ValueError("Formato de finca no soportado"))

\* the function applied to the argument
LoadFarmJson ==
    /\ l_pc = "input"
    /\ l_result' = load_farm_json(json_path)
    /\ l_pc' = IF l_result'.ok THEN "returned" ELSE "raised"
    /\ UNCHANGED json_path
    /\ UNCHANGED <<rvars, dvars, cvars, gvars, fvars, bvars>>

\* ---------------------------------------------------------------------
\* The per-farm drivers: batch_process.process_farm and analyze_farm.main
\* ---------------------------------------------------------------------
\* what a branch function does when called: it returns its result, returns
\* a dictionary with an 'error' key, or raises
BranchValue(n, flag) == [n |-> n, flag |-> flag]
NoValue == BranchValue(0, FALSE)
BranchReturns(v) == [kind |-> "ok", v |-> v, error |-> NoError]
BranchErrorDict == [kind |-> "errdict", v |-> NoValue, error |-> NoError]
BranchRaises(e) == [kind |-> "raise", v |-> NoValue, error |-> e]

\* calculate_ndvi: the mean in thousandths; {'error': ...} without images
NdviOutcomes ==
    {BranchReturns(BranchValue(612, FALSE)), BranchErrorDict}
    \cup {BranchRaises(e) : e \in ProviderErrors}
\* analyze_deforestation: the percentage in hundredths, and compliant
DeforestOutcomes ==
    {BranchReturns(BranchValue(120, TRUE)), BranchReturns(BranchValue(730, FALSE))}
    \cup {BranchRaises(e) : e \in ProviderErrors}
\* calculate_carbon_baseline: baselineCarbonTCO2e in hundredths
CarbonOutcomes ==
    {BranchReturns(BranchValue(51700, FALSE))}
    \cup {BranchRaises(e) : e \in ProviderErrors}

OSError(text) == [cls |-> "OSError", msg |-> <<text>>]
IndexError(text) == [cls |-> "IndexError", msg |-> <<text>>]
SystemExit(code) == [cls |-> "SystemExit", msg |-> <<ToString(code)>>]

\* what the environment answers while one farm is processed
FarmAnswers(area, ndvi, deforestation, carbon, write) ==
    [area |-> area, ndvi |-> ndvi, deforestation |-> deforestation,
     carbon |-> carbon, write |-> write]
WriteAnswers == {NoError, OSError("No space left on device")}

\* an entry of analysis_results
NoSlot == [present |-> FALSE, has_error |-> FALSE, error |-> <<>>, v |-> NoValue]
SlotOf(outcome) ==
    CASE outcome.kind = "ok" ->
            [present |-> TRUE, has_error |-> FALSE, error |-> <<>>, v |-> outcome.v]
      [] outcome.kind = "errdict" ->
            [present |-> TRUE, has_error |-> TRUE,
             error |-> <<"No se encontraron imagenes Sentinel-2">>, v |-> NoValue]
      [] outcome.kind = "raise" ->
            \* except Exception as e: analysis_results[...] = {'error': str(e)}
            [present |-> TRUE, has_error |-> TRUE, error |-> outcome.error.msg,
             v |-> NoValue]
NoAnalysis == [ndvi |-> NoSlot, deforestation |-> NoSlot, carbon |-> NoSlot]

\* `except Exception` around a branch: what it catches
CaughtByBranch_Mutant(e) == FALSE
CaughtByBranch(e) == e.cls \notin {"KeyboardInterrupt", "SystemExit"}

\* the branches run one after the other, each in its own try/except:
\* the analysis_results filled, the branch functions called, and the
\* exception that escaped a branch (NoError if none)
RECURSIVE RunBranches(_, _, _)
RunBranches(branches, ans, acc) ==
    IF branches = <<>> THEN acc
    ELSE LET branch == Head(branches)
             outcome == ans[branch]
         IN  IF outcome.kind = "raise" /\ ~CaughtByBranch(outcome.error)
             THEN [acc EXCEPT !.calls = Append(@, branch), !.escaped = outcome.error]
             ELSE RunBranches(Tail(branches), ans,
                              [acc EXCEPT !.calls = Append(@, branch),
                                          !.analysis[branch] = SlotOf(outcome)])

NoBranchesRun == [analysis |-> NoAnalysis, calls |-> <<>>, escaped |-> NoError]

\* an optional number or flag of the summary row (None when not some)
Nothing == [some |-> FALSE, n |-> 0, flag |-> FALSE]
Some(n, flag) == [some |-> TRUE, n |-> n, flag |-> flag]

\* result[key] is assigned only when the branch's result has no 'error' key
RowValue(slot) ==
    IF ~slot.present \/ slot.has_error THEN Nothing ELSE Some(slot.v.n, slot.v.flag)

\* result['eudrCompliant'], assigned only when the deforestation result has
\* no 'error' key
Compliance_Mutant(slot) ==
    IF ~slot.present THEN Nothing
    ELSE IF slot.has_error THEN Some(0, TRUE)
    ELSE Some(0, slot.v.flag)
Compliance(slot) ==
    IF ~slot.present \/ slot.has_error THEN Nothing ELSE Some(0, slot.v.flag)

\* the name of a file, as characters
FileName(file) == file.stem \o <<".", file.ext>>

\* json_path.stem + '_analysis.json'
OutputFilename(stem) == stem \o <<"_analysis.json">>

\* coords[0][0] can be taken: the coordinates are a list of lists
CoordsAddressable(polygon) ==
    /\ polygon.coordinates.k = "list"
    /\ polygon.coordinates.items # <<>>
    /\ polygon.coordinates.items[1].k = "list"
    /\ polygon.coordinates.items[1].items # <<>>

\* what coords[0][0] raises when it cannot be taken
CoordsError(polygon) ==
    IF polygon.coordinates.k = "list"
       /\ (\/ polygon.coordinates.items = <<>>
           \/ /\ polygon.coordinates.items[1].k = "list"
              /\ polygon.coordinates.items[1].items = <<>>)
    THEN IndexError("list index out of range")
    ELSE TypeError("object is not subscriptable")

\* the row process_farm starts from, and the row it returns
Row(file, success, error, name, farmId, areaHa, ndvi, eudrCompliant, deforestationPercent, carbonTCO2e, outputFile) ==
    [filename |-> FileName(file), success |-> success, error |-> error,
     name |-> name, farmId |-> farmId, areaHa |-> areaHa, ndvi |-> ndvi,
     eudrCompliant |-> eudrCompliant, deforestationPercent |-> deforestationPercent,
     carbonTCO2e |-> carbonTCO2e, outputFile |-> outputFile]

NoString == [some |-> FALSE, s |-> <<>>]
String(chars) == [some |-> TRUE, s |-> chars]

\* what one call of a driver leaves behind: the row returned, the branch
\* functions called (in order), whether and where the document was
\* written, and analysis_results as the driver last held it
Processed(row, called, written, path, farmId, analysis, escaped) ==
    [row |-> row, calls |-> called, written |-> written, path |-> path,
     farmId |-> farmId, analysis |-> analysis, escaped |-> escaped]

\* the `except Exception as e: result['error'] = str(e)` of process_farm
FarmFailed_Mutant(file, e, name, farmId, areaHa, ndvi, eudr, pct, carbon, called) ==
    Processed(Row(file, FALSE, NoString, name, farmId, areaHa, ndvi, eudr,
                  pct, carbon, NoString),
              called, FALSE, <<>>, <<>>, NoAnalysis, NoError)
FarmFailed(file, e, name, farmId, areaHa, ndvi, eudr, pct, carbon, called) ==
    Processed(Row(file, FALSE, String(e.msg), name, farmId, areaHa, ndvi, eudr,
                  pct, carbon, NoString),
              called, FALSE, <<>>, <<>>, NoAnalysis, NoError)

process_farm(file, ans) ==
    LET farm_data == load_farm_json(file)
        name == String(farm_data.name)
        farmId == String(farm_data.farmId)
        \* round(area_m2 / 10000, 2), in hundredths
        areaHa == Some(Round(Rat(ans.area.value, 10000), 2), FALSE)
        run == RunBranches(<<"ndvi", "deforestation", "carbon">>, ans, NoBranchesRun)
        ndvi_slot == run.analysis.ndvi
        deforest_slot == run.analysis.deforestation
        carbon_slot == run.analysis.carbon
        eudr == Compliance(deforest_slot)
        pct == IF ~deforest_slot.present \/ deforest_slot.has_error THEN Nothing
               ELSE Some(deforest_slot.v.n, FALSE)
        called == run.calls
        analysis == run.analysis
        path == OutputFilename(file.stem)
    IN  IF ~farm_data.ok
        THEN FarmFailed(file, farm_data.raised, NoString, NoString, Nothing, Nothing,
                        Nothing, Nothing, Nothing, <<>>)
        ELSE IF ~CoordsAddressable(farm_data.polygon)
        THEN FarmFailed(file, CoordsError(farm_data.polygon), name, farmId,
                        Nothing, Nothing, Nothing, Nothing, Nothing, <<>>)
        ELSE IF ans.area.status = "fail"
        THEN FarmFailed(file, ans.area.error, name, farmId, Nothing, Nothing,
                        Nothing, Nothing, Nothing, <<>>)
        ELSE IF run.escaped # NoError \/ ans.write # NoError
        THEN [FarmFailed(file, IF run.escaped # NoError THEN run.escaped ELSE ans.write,
                         name, farmId, areaHa, RowValue(ndvi_slot),
                         eudr, pct, RowValue(carbon_slot), called)
                 EXCEPT !.analysis = analysis]
        ELSE Processed(Row(file, TRUE, NoString, name, farmId, areaHa,
                           RowValue(ndvi_slot), eudr, pct, RowValue(carbon_slot),
                           String(path)),
                       called, TRUE, path, farm_data.farmId, analysis, NoError)

\* the command-line flags of analyze_farm.main
Flags(ndvi_only, deforestation_only, carbon_only) ==
    [ndvi_only |-> ndvi_only, deforestation_only |-> deforestation_only,
     carbon_only |-> carbon_only]
NoFlags == Flags(FALSE, FALSE, FALSE)

\* the branches the flags leave switched on, in the order main runs them
Selected(flags) ==
    (IF ~flags.deforestation_only /\ ~flags.carbon_only THEN <<"ndvi">> ELSE <<>>)
    \o (IF ~flags.ndvi_only /\ ~flags.carbon_only THEN <<"deforestation">> ELSE <<>>)
    \o (IF ~flags.ndvi_only /\ ~flags.deforestation_only THEN <<"carbon">> ELSE <<>>)

IsSelected(branch, flags) == \E i \in 1..Len(Selected(flags)) : Selected(flags)[i] = branch

\* main has no row: success stands for the run reaching its end, and
\* `escaped` is the SystemExit of the outer handler
MainEnded(file, e) ==
    Processed(Row(file, FALSE, String(e.msg), NoString, NoString, Nothing, Nothing,
                  Nothing, Nothing, Nothing, NoString),
              <<>>, FALSE, <<>>, <<>>, NoAnalysis, SystemExit(1))

analyze_farm_main(file, flags, ans) ==
    LET farm_data == load_farm_json(file)
        run == RunBranches(Selected(flags), ans, NoBranchesRun)
        main_results == run.analysis
        path == OutputFilename(file.stem)
        written == Processed(Row(file, TRUE, NoString, String(farm_data.name),
                                 String(farm_data.farmId), Nothing,
                                 RowValue(main_results.ndvi), Nothing, Nothing,
                                 RowValue(main_results.carbon), String(path)),
                             run.calls, TRUE, path, farm_data.farmId, main_results,
                             NoError)
    IN  IF ~farm_data.ok THEN MainEnded(file, farm_data.raised)
        ELSE IF run.escaped # NoError
        THEN [MainEnded(file, run.escaped) EXCEPT !.calls = run.calls,
                                                   !.analysis = main_results]
        ELSE IF ans.write # NoError
        THEN [MainEnded(file, ans.write) EXCEPT !.calls = run.calls,
                                                 !.analysis = main_results]
        ELSE written

\* one call of batch_process.process_farm
ProcessFarm(file, ans) ==
    /\ f_pc = "idle"
    /\ f_pc' = "done"
    /\ f_in' = [driver |-> "process_farm", file |-> file, flags |-> NoFlags, ans |-> ans]
    /\ f_out' = process_farm(file, ans)
    /\ UNCHANGED <<rvars, dvars, cvars, gvars, lvars, bvars>>

\* one run of analyze_farm.main
AnalyzeFarmMain(file, flags, ans) ==
    /\ f_pc = "idle"
    /\ f_pc' = "done"
    /\ f_in' = [driver |-> "main", file |-> file, flags |-> flags, ans |-> ans]
    /\ f_out' = analyze_farm_main(file, flags, ans)
    /\ UNCHANGED <<rvars, dvars, cvars, gvars, lvars, bvars>>

\* ---------------------------------------------------------------------
\* batch_process.main
\* ---------------------------------------------------------------------
\* code points of the characters of the file names (the extension counts
\* as its first letter)
Ord(c) ==
    CASE c = " " -> 32 [] c = "-" -> 45 [] c = "." -> 46
      [] c = "A" -> 65 [] c = "F" -> 70
      [] c = "a" -> 97 [] c = "b" -> 98 [] c = "c" -> 99
      [] c = "geojson" -> 103 [] c = "i" -> 105 [] c = "json" -> 106
      [] c = "m" -> 109

\* string comparison a < b
RECURSIVE NameLess(_, _)
NameLess(a, b) ==
    IF b = <<>> THEN FALSE
    ELSE IF a = <<>> THEN TRUE
    ELSE IF Ord(Head(a)) # Ord(Head(b)) THEN Ord(Head(a)) < Ord(Head(b))
    ELSE NameLess(Tail(a), Tail(b))

\* sorted(all_files)
RECURSIVE Sorted(_)
Sorted(files) ==
    IF files = {} THEN <<>>
    ELSE LET least == CHOOSE f \in files :
                         \A g \in files \ {f} : NameLess(FileName(f), FileName(g))
         IN  <<least>> \o Sorted(files \ {least})

Directory(exists, files) == [exists |-> exists, files |-> files]

\* find_farm_files: the *.json and *.geojson files of the directory, sorted
find_farm_files(dir) ==
    Sorted({f \in dir.files : f.ext \in {"json", "geojson"}})

NoSummary ==
    [produced |-> FALSE, totalFarms |-> 0, successfulAnalyses |-> 0,
     failedAnalyses |-> 0, eudrCompliant |-> 0, results |-> <<>>,
     compliant_count |-> 0, total_count |-> 0]

\* len([r for r in results if ...])
CountRows(kept) == Cardinality({i \in DOMAIN kept : kept[i]})

IsSuccess(r) == r.success
IsFailure(r) == ~r.success
\* r['eudrCompliant'] is truthy
IsCompliantRow(r) == r.eudrCompliant.some /\ r.eudrCompliant.flag
\* the row counts in the footer of create_summary_table
IsCompliantInTable(r) == r.success /\ r.eudrCompliant.some /\ r.eudrCompliant.flag

\* export_json, and the counts of create_summary_table
export_json(rows) ==
    [produced |-> TRUE,
     totalFarms |-> Len(rows),
     successfulAnalyses |-> CountRows([i \in DOMAIN rows |-> IsSuccess(rows[i])]),
     failedAnalyses |-> CountRows([i \in DOMAIN rows |-> IsFailure(rows[i])]),
     eudrCompliant |-> CountRows([i \in DOMAIN rows |-> IsCompliantRow(rows[i])]),
     results |-> rows,
     compliant_count |-> CountRows([i \in DOMAIN rows |-> IsCompliantInTable(rows[i])]),
     total_count |-> CountRows([i \in DOMAIN rows |-> IsSuccess(rows[i])])]

\* results.append(result)
Collect_Mutant(rows, row) == IF row.success THEN Append(rows, row) ELSE rows
Collect(rows, row) == Append(rows, row)

\* open(output_path, 'w'): the file at the path now holds this document
WriteFile(dir, path, filename, farmId) ==
    {e \in dir : e.path # path}
    \cup {[path |-> path, filename |-> filename, farmId |-> farmId]}

\* main up to the loop: the files are looked up; a missing directory
\* (FileNotFoundError, caught by the outer handler) and an empty list end
\* the run with sys.exit(1)
FindFarmFiles ==
    /\ b_pc = "start"
    /\ IF ~input_dir.exists \/ find_farm_files(input_dir) = <<>>
       THEN /\ b_pc' = "exit"
            /\ UNCHANGED farm_files
       ELSE /\ b_pc' = "loop"
            /\ farm_files' = find_farm_files(input_dir)
    /\ UNCHANGED <<input_dir, continue_on_error, b_next, started, results, writes,
                   output_dir, summary, asked>>
    /\ UNCHANGED <<rvars, dvars, cvars, gvars, lvars, fvars>>

\* `if not args.continue_on_error: break` under a result without success
Breaks_Mutant(row, policy) == ~row.success
Breaks(row, policy) == ~row.success /\ ~policy

\* one iteration of the loop over farm_files.  process_farm catches every
\* Exception itself, so the loop's own `except Exception` is never entered.
ProcessNextFarm(ans) ==
    /\ b_pc = "loop"
    /\ LET farm_file == farm_files[b_next]
           done == process_farm(farm_file, ans)
           stop == Breaks(done.row, continue_on_error)
       IN  /\ started' = Append(started, FileName(farm_file))
           /\ asked' = Append(asked, ans)
           /\ results' = Collect(results, done.row)
           /\ IF done.written
              THEN /\ writes' = Append(writes, [path |-> done.path,
                                                filename |-> FileName(farm_file)])
                   /\ output_dir' = WriteFile(output_dir, done.path,
                                              FileName(farm_file), done.farmId)
              ELSE UNCHANGED <<writes, output_dir>>
           /\ IF stop \/ b_next = Len(farm_files)
              THEN b_pc' = "summary" /\ UNCHANGED b_next
              ELSE b_pc' = "loop" /\ b_next' = b_next + 1
    /\ UNCHANGED <<input_dir, continue_on_error, farm_files, summary>>
    /\ UNCHANGED <<rvars, dvars, cvars, gvars, lvars, fvars>>

\* after the loop: the table, the CSV and the JSON summary
GenerateSummary ==
    /\ b_pc = "summary"
    /\ b_pc' = "done"
    /\ summary' = export_json(results)
    /\ UNCHANGED <<input_dir, continue_on_error, farm_files, b_next, started,
                   results, writes, output_dir, asked>>
    /\ UNCHANGED <<rvars, dvars, cvars, gvars, lvars, fvars>>

\* ---------------------------------------------------------------------
\* Initial states and specifications
\* ---------------------------------------------------------------------
RetryIdle ==
    /\ r_pc = "idle"
    /\ max_retries = 0
    /\ delay = 0
    /\ operation_name = None
    /\ attempt = 0
    /\ last_error = NoError
    /\ wait_time = 0
    /\ r_result = None
    /\ r_raised = NoError
    /\ calls = 0
    /\ outcomes = <<>>
    /\ waits = <<>>
    /\ log = <<>>

DeforestIdle ==
    /\ d_pc = "idle"
    /\ d_variant = None
    /\ d_in = [initial |-> AnswerNull, loss |-> AnswerNull, change |-> AnswerNull,
               years |-> <<>>]
    /\ d_result = NoDeforestResult
    /\ d_raised = NoError

CarbonIdle ==
    /\ c_pc = "idle"
    /\ c_variant = None
    /\ c_in = [method |-> None, tree_inventory |-> NoInventory, area |-> AnswerNull,
               size |-> AnswerNull, ndvi |-> NdviMissing]
    /\ c_locals = NoCarbonLocals
    /\ c_result = NoCarbonResult
    /\ c_raised = NoError

GeomIdle ==
    /\ g_pc = "done"
    /\ geometry = [isdict |-> FALSE, type |-> None, coordinates |-> Null]
    /\ g_result = NoGeometryResult
    /\ g_again = NoGeometryResult

LoadIdle ==
    /\ l_pc = "raised"
    /\ json_path = File(FALSE, <<"a">>, "json",
                        Doc("other", NoFeatures, SlotNone, NoPolygonKey,
                            None, None, None, NoInventory))
    /\ l_result = NoLoadResult

NoFile ==
    File(FALSE, <<"a">>, "json",
         Doc("other", NoFeatures, SlotNone, NoPolygonKey, None, None, None, NoInventory))

FarmIdle ==
    /\ f_pc = "done"
    /\ f_in = [driver |-> "none", file |-> NoFile, flags |-> NoFlags,
               ans |-> FarmAnswers(AnswerNull, BranchErrorDict, BranchErrorDict,
                                   BranchErrorDict, NoError)]
    /\ f_out = MainEnded(NoFile, NoError)

BatchIdle ==
    /\ b_pc = "exit"
    /\ input_dir = Directory(FALSE, {})
    /\ continue_on_error = FALSE
    /\ farm_files = <<>>
    /\ b_next = 1
    /\ started = <<>>
    /\ results = <<>>
    /\ writes = <<>>
    /\ output_dir = {}
    /\ summary = NoSummary
    /\ asked = <<>>

OthersIdle == FarmIdle /\ BatchIdle

RetryInit == RetryIdle /\ DeforestIdle /\ CarbonIdle /\ GeomIdle /\ LoadIdle /\ OthersIdle

RetryNext ==
    \/ \E mr \in (-1)..MaxRetriesBound, dl \in 0..MaxDelay, name \in OperationNames :
          RetryCall(mr, dl, name)
    \/ \E o \in Outcomes : Attempt(o)
    \/ Sleep

SpecRetry == RetryInit /\ [][RetryNext]_vars

\* the calendar years of the analysed range, each with its answers
YearSeqs(n) == [1..n -> YearAnswers]

DeforestInit ==
    RetryIdle /\ DeforestIdle /\ CarbonIdle /\ GeomIdle /\ LoadIdle /\ OthersIdle

\* one call of the local analyzer, with every answer the provider can give;
\* its range always spans the same number of calendar years
DeforestLocalCall ==
    /\ d_pc = "idle"
    /\ \E initial \in InitialAnswers, loss \in LossAnswers,
          change \in ThumbAnswers, ys \in YearSeqs(MaxYears) :
          AnalyzeDeforestationLocal(initial, loss, change, ys)

\* one call of the script, whose range comes from its arguments
DeforestScriptCall ==
    /\ d_pc = "idle"
    /\ \E initial \in InitialAnswers, loss \in LossAnswers,
          change \in ThumbAnswers, n \in 0..MaxYears :
          \E ys \in YearSeqs(n) :
             AnalyzeDeforestationScript(initial, loss, change, ys)

DeforestNext == DeforestLocalCall \/ DeforestScriptCall

SpecDeforest == DeforestInit /\ [][DeforestNext]_vars

Methods == {"satellite", "field", "hybrid"}

CarbonInit ==
    RetryIdle /\ DeforestIdle /\ CarbonIdle /\ GeomIdle /\ LoadIdle /\ OthersIdle

\* one call of the script, with every argument and provider answer
CarbonScriptCall ==
    /\ c_pc = "idle"
    /\ \E method \in Methods, inv \in Inventories, area \in AreaAnswers,
          size \in SizeAnswers, ndvi \in NdviAnswers :
          CalculateCarbonBaselineScript(method, inv, area, size, ndvi)

\* one call of the local variant
CarbonLocalCall ==
    /\ c_pc = "idle"
    /\ \E inv \in Inventories, area \in AreaAnswers,
          size \in SizeAnswers, ndvi \in NdviAnswers :
          CalculateCarbonBaselineLocal(inv, area, size, ndvi)

CarbonNext == CarbonScriptCall \/ CarbonLocalCall

SpecCarbon == CarbonInit /\ [][CarbonNext]_vars

\* the normalizer is a function: the argument is drawn at the start
GeomInit ==
    /\ RetryIdle /\ DeforestIdle /\ CarbonIdle /\ LoadIdle /\ OthersIdle
    /\ g_pc = "input"
    /\ geometry \in Geometries
    /\ g_result = NoGeometryResult
    /\ g_again = NoGeometryResult

GeomNext == NormalizeGeometry \/ NormalizeAgain

SpecGeom == GeomInit /\ [][GeomNext]_vars

\* load_farm_json is a function of the file: the file is drawn at the start
FarmFiles ==
    {File(TRUE, st, "json", d) : st \in Stems, d \in Docs}
    \cup {File(FALSE, st, "json",
               Doc("other", NoFeatures, SlotNone, NoPolygonKey,
                   None, None, None, NoInventory)) : st \in Stems}

LoadInit ==
    /\ RetryIdle /\ DeforestIdle /\ CarbonIdle /\ GeomIdle /\ OthersIdle
    /\ l_pc = "input"
    /\ json_path \in FarmFiles
    /\ l_result = NoLoadResult

LoadNext == LoadFarmJson

SpecLoad == LoadInit /\ [][LoadNext]_vars

\* the farm files and the answers the drivers are run on
DriverDocs ==
    {Doc("custom", NoFeatures, SlotNone,
         [isfeature |-> FALSE, slot |-> SlotValue(Geom("Polygon", List(<<RingFlat>>)))],
         "Finca", fid, None, inv) : fid \in FarmIds, inv \in FarmInventories}
    \cup {Doc("Feature", NoFeatures, SlotValue(g), NoPolygonKey, None, None, None,
              NoInventory) :
             g \in {Geom("Point", Pos44z), Geom("Polygon", List(<<>>)),
                    Geom("MultiPolygon", List(<<List(<<RingFar>>), List(<<RingFlat>>)>>))}}
    \cup {Doc("FeatureCollection", Features(<<>>), SlotNone, NoPolygonKey, None, None,
              "P-1", NoInventory)}
DriverFiles == {File(TRUE, <<"a">>, "json", d) : d \in DriverDocs} \cup {NoFile}
DriverAnswers ==
    {FarmAnswers(a, n, d, c, w) :
        a \in {Answer(25000)} \cup {AnswerFail(e) : e \in ProviderErrors},
        n \in NdviOutcomes, d \in DeforestOutcomes, c \in CarbonOutcomes,
        w \in WriteAnswers}

FarmInit ==
    /\ RetryIdle /\ DeforestIdle /\ CarbonIdle /\ GeomIdle /\ LoadIdle /\ BatchIdle
    /\ f_pc = "idle"
    /\ f_in = [driver |-> "none", file |-> NoFile, flags |-> NoFlags,
               ans |-> FarmAnswers(AnswerNull, BranchErrorDict, BranchErrorDict,
                                   BranchErrorDict, NoError)]
    /\ f_out = MainEnded(NoFile, NoError)

ProcessFarmCall ==
    f_pc = "idle" /\ \E file \in DriverFiles, ans \in DriverAnswers : ProcessFarm(file, ans)

AnalyzeFarmMainCall ==
    f_pc = "idle" /\
    \E file \in DriverFiles, ans \in DriverAnswers,
       n \in BOOLEAN, d \in BOOLEAN, c \in BOOLEAN :
          AnalyzeFarmMain(file, Flags(n, d, c), ans)

FarmNext == ProcessFarmCall \/ AnalyzeFarmMainCall

SpecFarm == FarmInit /\ [][FarmNext]_vars

\* the directories a batch is run on: each of the first MaxFarms names is
\* absent or holds one of the documents
BatchNames ==
    <<[stem |-> <<"a">>, ext |-> "json"], [stem |-> <<"a">>, ext |-> "geojson"],
      [stem |-> <<"b">>, ext |-> "json"], [stem |-> <<"c">>, ext |-> "json"],
      [stem |-> <<"A">>, ext |-> "json"]>>
BatchDocs ==
    {Doc("custom", NoFeatures, SlotNone,
         [isfeature |-> FALSE, slot |-> SlotValue(Geom("Polygon", List(<<RingFlat>>)))],
         "Finca", fid, None, NoInventory) : fid \in FarmIds}
    \cup {Doc("FeatureCollection", Features(<<>>), SlotNone, NoPolygonKey, None, None,
              None, NoInventory)}
Picks ==
    {[present |-> TRUE, doc |-> d] : d \in BatchDocs}
    \cup {[present |-> FALSE, doc |-> NoFile.data]}
Directories ==
    {Directory(TRUE, {File(TRUE, BatchNames[i].stem, BatchNames[i].ext, pick[i].doc) :
                         i \in {k \in 1..MaxFarms : pick[k].present}}) :
        pick \in [1..MaxFarms -> Picks]}
    \cup {Directory(FALSE, {})}
BatchAnswers ==
    {FarmAnswers(Answer(25000), BranchReturns(BranchValue(612, FALSE)), d,
                 BranchReturns(BranchValue(51700, FALSE)), NoError) :
        d \in DeforestOutcomes}
    \cup {FarmAnswers(AnswerFail(e), BranchErrorDict, BranchErrorDict, BranchErrorDict,
                      NoError) : e \in ProviderErrors}
    \cup {FarmAnswers(Answer(25000), BranchErrorDict,
                      BranchReturns(BranchValue(120, TRUE)),
                      BranchReturns(BranchValue(51700, FALSE)), w) :
             w \in WriteAnswers \ {NoError}}

BatchInit ==
    /\ RetryIdle /\ DeforestIdle /\ CarbonIdle /\ GeomIdle /\ LoadIdle /\ FarmIdle
    /\ b_pc = "start"
    /\ input_dir \in Directories
    /\ continue_on_error \in BOOLEAN
    /\ farm_files = <<>>
    /\ b_next = 1
    /\ started = <<>>
    /\ results = <<>>
    /\ writes = <<>>
    /\ output_dir = {}
    /\ summary = NoSummary
    /\ asked = <<>>

ProcessNextFarmCall ==
    b_pc = "loop" /\ \E ans \in BatchAnswers : ProcessNextFarm(ans)

BatchNext == FindFarmFiles \/ ProcessNextFarmCall \/ GenerateSummary

SpecBatch == BatchInit /\ [][BatchNext]_vars

\* ---------------------------------------------------------------------
\* Claims about retry_ee_operation
\* ---------------------------------------------------------------------
RetryFinished == r_pc \in {"returned", "raised"}

\* the failures the claims call retryable: a provider error whose message
\* holds timeout, rate limit or quota
RetryableErrors ==
    {EEException(MsgTimeout), EEException(MsgRateLimit), EEException(MsgQuota)}

RetryableFailure(o) == ~o.ok /\ o.error \in RetryableErrors
OtherFailure(o) == ~o.ok /\ o.error \notin RetryableErrors

\* C1: for max_retries >= 1, one call invokes the operation at most
\* max_retries times, whatever the operation produces.
C1_AtMostMaxRetries ==
    (r_pc # "idle" /\ max_retries >= 1) => calls <= max_retries

C1_Witness ==
    /\ r_pc = "raised"
    /\ max_retries >= 2
    /\ calls = max_retries
    /\ Len(waits) = max_retries - 1

\* C2: another attempt is made only after a retryable failure; any other
\* failure is delivered to the caller at once, after the one invocation that
\* produced it, with no sleep after it and no further attempt; when it is
\* the first failure the operation was invoked exactly once.
C2_OnlyRetryableRetried ==
    /\ \A i \in 1..(Len(outcomes) - 1) : RetryableFailure(outcomes[i])
    /\ \A i \in 1..Len(outcomes) :
          OtherFailure(outcomes[i]) =>
             /\ i = Len(outcomes)
             /\ r_pc = "raised"
             /\ r_raised = outcomes[i].error
             /\ calls = i
             /\ Len(waits) = i - 1
    /\ (Len(outcomes) >= 1 /\ OtherFailure(outcomes[1])) =>
          (calls = 1 /\ waits = <<>>)

C2_Witness ==
    /\ r_pc = "raised"
    /\ max_retries >= 2
    /\ calls = 1
    /\ waits = <<>>
    /\ outcomes[1].error = OtherException(MsgTimeout)

\* every attempt of the call failed with a retryable error
Exhausted ==
    /\ r_pc = "raised"
    /\ max_retries >= 1
    /\ Len(outcomes) = max_retries
    /\ \A i \in 1..Len(outcomes) : RetryableFailure(outcomes[i])

\* the exception carries the operation name and the attempt count
Tagged(e, name, n) ==
    /\ \E i \in 1..Len(e.msg) : e.msg[i] = name
    /\ \E i \in 1..Len(e.msg) : e.msg[i] = ToString(n)

\* C3 (as stated): after max_retries retryable failures the last error is
\* re-raised and the error delivered to the caller is tagged with the
\* operation name and the attempt count.
C3_Original ==
    Exhausted =>
       /\ r_raised.cls = outcomes[max_retries].error.cls
       /\ Tagged(r_raised, operation_name, max_retries)

\* C3 (amended): after max_retries retryable failures the error of the final
\* attempt is re-raised unchanged; the operation name and the attempt count
\* are in the line printed to stderr before the raise, not in the error.
C3_ReraisesLastUnchanged ==
    Exhausted =>
       /\ r_raised = outcomes[max_retries].error
       /\ log # <<>>
       /\ log[Len(log)] = LogLine("failed_after", operation_name, max_retries,
                                  max_retries, outcomes[max_retries].error.msg)

C3_Witness ==
    /\ Exhausted
    /\ max_retries >= 2
    /\ outcomes[1].error # outcomes[max_retries].error

\* C4: the wait after failed attempt k (from 0) is delay * 2^k, so the first
\* wait is delay and each wait is twice the one before; a wait happens only
\* between two attempts, so a finished call that invoked the operation made
\* one wait fewer than invocations, and at most max_retries - 1 waits.
C4_BackoffDoubles ==
    /\ Len(waits) >= 1 => waits[1] = delay
    /\ \A i \in 1..(Len(waits) - 1) : waits[i + 1] = 2 * waits[i]
    /\ Len(waits) <= calls
    /\ (r_pc = "sleep") => (Len(waits) = calls - 1 /\ wait_time = delay * Pow2(calls - 1))
    /\ (r_pc = "try") => Len(waits) = calls
    /\ (RetryFinished /\ calls >= 1) => Len(waits) = calls - 1
    /\ (r_pc # "idle" /\ max_retries >= 1) => Len(waits) <= max_retries - 1

C4_Witness ==
    /\ r_pc = "raised"
    /\ delay >= 1
    /\ Len(waits) = 2
    /\ waits[2] = 2 * delay

\* ---------------------------------------------------------------------
\* Claims about analyze_deforestation
\* ---------------------------------------------------------------------
\* C5 (as stated): in every returned result, compliant is true iff the
\* deforestationPercent field of that result is strictly below 5.0 (the
\* field is kept in hundredths of a percent); a result reporting 5.0 is
\* not compliant.
C5_Original ==
    d_result.returned =>
       (d_result.compliant <=> d_result.deforestationPercent < 500)

\* the pixel sums a computed result was derived from
SumOf(a) == IF a.status = "ok" THEN a.value ELSE 0

\* the unrounded percentage lost / initial * 100 (0 when initial = 0) is < 5
ExactBelowFive ==
    SumOf(d_in.initial) > 0 => SumOf(d_in.loss) * 100 < 5 * SumOf(d_in.initial)

\* C5 (amended): in every result computed from the pixel statistics,
\* compliant is true iff the unrounded percentage is strictly below 5.0; the
\* deforestationPercent field is that percentage rounded to two decimals,
\* so in every returned result a field below 5.0 implies compliant and
\* a non-compliant result reports at least 5.0.
C5_CompliantIffUnroundedBelowFive ==
    /\ (d_result.returned /\ ~d_result.warning) =>
          (d_result.compliant <=> ExactBelowFive)
    /\ d_result.returned =>
          /\ d_result.deforestationPercent < 500 => d_result.compliant
          /\ ~d_result.compliant => d_result.deforestationPercent >= 500

C5_Witness ==
    /\ d_result.returned
    /\ ~d_result.warning
    /\ d_result.deforestationPercent = 500
    /\ d_result.compliant
    /\ SumOf(d_in.loss) * 100 < 5 * SumOf(d_in.initial)

\* C6: when the baseline tree-cover query or the loss query fails, the
\* analyzer raises nothing and returns deforestationPercent = 0,
\* areaLostHa = 0, initialForestHa = 0, compliant = true and a warning.
C6_FailOpen ==
    (d_pc # "idle" /\ (d_in.initial.status = "fail" \/ d_in.loss.status = "fail")) =>
       /\ d_pc = "returned"
       /\ d_raised = NoError
       /\ d_result.returned
       /\ d_result.deforestationPercent = 0
       /\ d_result.areaLostHa = 0
       /\ d_result.initialForestHa = 0
       /\ d_result.compliant
       /\ d_result.warning

\* ---------------------------------------------------------------------
\* Claims about calculate_carbon_baseline
\* ---------------------------------------------------------------------
\* none of the remote calls of the satellite computation failed
SatelliteAnswersOk ==
    /\ c_in.area.status = "ok"
    /\ c_in.size.status = "ok"
    /\ (c_in.size.value # 0 => c_in.ndvi.status # "fail")

\* C7: asked for method field or hybrid with an absent or empty tree
\* inventory, calculate_carbon_baseline raises nothing, computes with the
\* satellite method, and the methodology field of the result names
\* satellite, not the requested method.
C7_FallbackNamesSatellite ==
    (/\ c_pc # "idle"
     /\ c_variant = "script"
     /\ c_in.method \in {"field", "hybrid"}
     /\ ~HasInventory(c_in.tree_inventory)
     /\ SatelliteAnswersOk) =>
       /\ c_pc = "returned"
       /\ c_raised = NoError
       /\ c_locals.branch = "satellite"
       /\ c_result.methodology = "satellite"

\* C8: whenever the satellite method is used and the provider reports zero
\* images, the result has AGB per hectare = 50, total AGB = 50 x area and
\* methodology = "default_estimation".
C8_ZeroImagesDefault ==
    (/\ c_pc = "returned"
     /\ c_locals.branch = "satellite"
     /\ c_in.size.value = 0) =>
       /\ c_result.agbTonnesPerHa = 5000
       /\ c_locals.total_agb.n * 10000 = 50 * c_in.area.value * c_locals.total_agb.d
       /\ c_result.methodology = "default_estimation"

\* ---------------------------------------------------------------------
\* Claims about _normalize_geometry
\* ---------------------------------------------------------------------
\* C9: every geometry the normalizer returns without error has type
\* exactly "Polygon", whatever the type of the input geometry was.
C9_AlwaysPolygon ==
    (g_pc = "done" /\ g_result.ok) => g_result.type = "Polygon"

\* a vertex cut to its first two components
Vertex2D(v) == List(<<v.items[1], v.items[2]>>)
Ring2D(r) == List([i \in 1..Len(r.items) |-> Vertex2D(r.items[i])])
Polygon2D(p) == List([i \in 1..Len(p.items) |-> Ring2D(p.items[i])])

\* the vertices of a polygon (of its rings), as a set
VerticesOf(p) ==
    UNION {{p.items[i].items[j] : j \in 1..Len(p.items[i].items)} :
              i \in 1..Len(p.items)}

\* the argument is a MultiPolygon of two or more polygons
IsMultiPolygonOfSeveral ==
    /\ geometry.isdict
    /\ geometry.type = "MultiPolygon"
    /\ geometry.coordinates \in ModelMultiPolygons
    /\ Len(geometry.coordinates.items) >= 2

\* C10: normalizing a MultiPolygon of two or more polygons returns a
\* Polygon whose rings are exactly the rings of the first polygon, cut to
\* 2-D: as many rings, and only vertices of the first polygon.
C10_FirstPolygonOnly ==
    (g_pc = "done" /\ IsMultiPolygonOfSeveral) =>
       /\ g_result.ok
       /\ g_result.type = "Polygon"
       /\ g_result.coordinates = Polygon2D(geometry.coordinates.items[1])
       /\ Len(g_result.coordinates.items) = Len(geometry.coordinates.items[1].items)
       /\ VerticesOf(g_result.coordinates)
             \subseteq VerticesOf(Polygon2D(geometry.coordinates.items[1]))

C10_Witness ==
    /\ g_pc = "done"
    /\ IsMultiPolygonOfSeveral
    /\ geometry.coordinates.items[1] = List(<<RingOuter, RingHole>>)
    /\ geometry.coordinates.items[2] = List(<<RingFar>>)
    /\ g_result.ok
    /\ Len(g_result.coordinates.items) = 2

\* the vertices of a polygon all have exactly two components
IsFlat(p) == \A v \in VerticesOf(p) : Len(v.items) = 2

\* the argument is a valid polygon: rings of positions, three or more
\* vertices, no third coordinate component
IsValidFlatPolygon ==
    /\ geometry.isdict
    /\ geometry.type = "Polygon"
    /\ geometry.coordinates \in ModelPolygons
    /\ Len(geometry.coordinates.items) >= 1
    /\ Cardinality(VerticesOf(geometry.coordinates)) >= 3
    /\ IsFlat(geometry.coordinates)

\* C11: for every valid polygon with three or more vertices and no third
\* coordinate component, normalizing the output of a normalization returns
\* the same geometry as normalizing once (and that is the input geometry).
C11_Idempotent ==
    (g_pc = "again" /\ IsValidFlatPolygon) =>
       /\ g_again.ok
       /\ g_again.type = g_result.type
       /\ g_again.coordinates = g_result.coordinates
       /\ g_result.coordinates = geometry.coordinates

C11_Witness ==
    /\ g_pc = "again"
    /\ IsValidFlatPolygon
    /\ g_again.ok
    /\ g_again.coordinates = List(<<RingFlat>>)

\* ---------------------------------------------------------------------
\* Claims about load_farm_json
\* ---------------------------------------------------------------------
\* the document is a FeatureCollection without features
ZeroFeatures ==
    json_path.data.kind = "FeatureCollection" /\ json_path.data.features.items = <<>>

\* the document carries a geometry: under the first feature, under the
\* Feature, or under 'polygon' (directly or as a Feature)
CarriesGeometry ==
    /\ json_path.data.kind \in {"FeatureCollection", "Feature", "custom"}
    /\ ~ZeroFeatures

\* whether that geometry is the geometry member of a Feature
InFeature ==
    \/ json_path.data.kind \in {"FeatureCollection", "Feature"}
    \/ json_path.data.kind = "custom" /\ json_path.data.polygon.isfeature

GeometrySlot ==
    CASE json_path.data.kind = "FeatureCollection" -> json_path.data.features.items[1].geometry
      [] json_path.data.kind = "Feature" -> json_path.data.geometry
      [] json_path.data.kind = "custom" -> json_path.data.polygon.slot

FeatureWithoutGeometry == CarriesGeometry /\ InFeature /\ GeometrySlot.kind # "value"

GeometryNotAMapping ==
    /\ CarriesGeometry
    /\ \/ GeometrySlot.kind = "value" /\ ~GeometrySlot.g.isdict
       \/ ~InFeature /\ GeometrySlot.kind = "none"

TypeOrCoordinatesMissing ==
    /\ CarriesGeometry
    /\ \/ GeometrySlot.kind = "value"
       \/ ~InFeature /\ GeometrySlot.kind = "empty"
    /\ GeometrySlot.g.isdict
    /\ GeometrySlot.g.type = None \/ GeometrySlot.g.coordinates = Null

MultiPolygonWithoutPolygons ==
    /\ CarriesGeometry
    /\ GeometrySlot.kind = "value"
    /\ GeometrySlot.g.isdict
    /\ GeometrySlot.g.type = "MultiPolygon"
    /\ GeometrySlot.g.coordinates = List(<<>>)

\* C12: loading a farm file fails with the invalid-geometry error (a
\* ValueError) and returns no record when the geometry is not a mapping,
\* its type or coordinates is missing, the FeatureCollection has no
\* features, the Feature has no geometry, or the MultiPolygon has no
\* polygons.
C12_InvalidGeometryRejected ==
    (/\ l_pc # "input"
     /\ json_path.exists
     /\ \/ GeometryNotAMapping
        \/ TypeOrCoordinatesMissing
        \/ ZeroFeatures
        \/ FeatureWithoutGeometry
        \/ MultiPolygonWithoutPolygons) =>
       /\ l_pc = "raised"
       /\ ~l_result.ok
       /\ l_result.raised.cls = "ValueError"
       /\ l_result.polygon = NoPolygon

C12_Witness ==
    /\ l_pc = "raised"
    /\ json_path.exists
    /\ json_path.data.kind = "FeatureCollection"
    /\ MultiPolygonWithoutPolygons
    /\ l_result.raised = ValueError("MultiPolygon invalido: sin poligonos")

\* ---------------------------------------------------------------------
\* Claims about the per-farm drivers
\* ---------------------------------------------------------------------
\* the driver got as far as its branches: the farm was loaded and measured
BranchesReached ==
    /\ f_pc = "done"
    /\ f_in.driver \in {"process_farm", "main"}
    /\ load_farm_json(f_in.file).ok
    /\ f_in.driver = "process_farm" =>
          /\ CoordsAddressable(load_farm_json(f_in.file).polygon)
          /\ f_in.ans.area.status = "ok"

\* the branches the driver is asked to run
Requested ==
    IF f_in.driver = "main" THEN Selected(f_in.flags)
    ELSE <<"ndvi", "deforestation", "carbon">>

\* C13: in both per-farm drivers the branches NDVI, deforestation and
\* carbon are isolated: for every combination of branch failures each
\* requested branch is attempted, a branch that raised has its slot set to
\* an object with an error field, and a branch that returned keeps its own
\* result.
C13_BranchesIsolated ==
    BranchesReached =>
       /\ f_out.calls = Requested
       /\ \A i \in 1..Len(Requested) :
             LET branch == Requested[i]
                 outcome == f_in.ans[branch]
                 slot == f_out.analysis[branch]
             IN  /\ slot.present
                 /\ outcome.kind = "raise" =>
                       slot.has_error /\ slot.error = outcome.error.msg
                 /\ outcome.kind = "ok" => ~slot.has_error /\ slot.v = outcome.v

C13_Witness ==
    /\ BranchesReached
    /\ f_in.driver = "process_farm"
    /\ f_in.ans.ndvi.kind = "raise"
    /\ f_in.ans.deforestation.kind = "raise"
    /\ f_in.ans.carbon.kind = "ok"
    /\ f_out.calls = <<"ndvi", "deforestation", "carbon">>
    /\ f_out.analysis.ndvi.has_error
    /\ f_out.analysis.carbon.v.n = 51700
    /\ f_out.row.success

\* ---------------------------------------------------------------------
\* Claims about batch_process.main
\* ---------------------------------------------------------------------
\* the rows with this file name
RowsOf(rows, filename) == {i \in 1..Len(rows) : rows[i].filename = filename}

\* C14: in a batch run no failed record is dropped: every farm file whose
\* processing was started has exactly one entry in the results list,
\* failed or not, the summary holds that list, and its counts satisfy
\* totalFarms = successfulAnalyses + failedAnalyses.
C14_NoRecordDropped ==
    /\ Len(results) = Len(started)
    /\ \A i \in 1..Len(started) :
          /\ results[i].filename = started[i]
          /\ Cardinality(RowsOf(results, started[i])) = 1
    /\ summary.produced =>
          /\ summary.results = results
          /\ summary.totalFarms = Len(started)
          /\ summary.totalFarms = summary.successfulAnalyses + summary.failedAnalyses
          /\ summary.failedAnalyses
                = Cardinality({i \in 1..Len(results) : ~results[i].success})

C14_Witness ==
    /\ b_pc = "done"
    /\ summary.produced
    /\ Len(started) = 3
    /\ ~results[1].success
    /\ results[2].success
    /\ ~results[3].success
    /\ summary.failedAnalyses = 2

\* C15: each farm's result document is written to an output file of its
\* own: two different input files of the same run never write to the same
\* output file, so no record's result overwrites another's.
C15_OutputPerFarm ==
    \A i, j \in 1..Len(writes) :
       writes[i].filename # writes[j].filename => writes[i].path # writes[j].path

\* ---------------------------------------------------------------------
\* Further claims about calculate_carbon_baseline
\* ---------------------------------------------------------------------
\* a result was returned with a positive total AGB
PositiveAgb == c_pc = "returned" /\ RLess(RInt(0), c_locals.total_agb)

\* |x|
RAbs(x) == [n |-> Abs(x.n), d |-> x.d]

\* C16 (as stated): for every method and every positive total AGB the
\* ratio CO2e / AGB is 2.0724, within the rounding of its last decimal.
C16_Original ==
    PositiveAgb =>
       RLeq(RAbs(RSub(RDiv(c_locals.total_co2e, c_locals.total_agb), Rat(20724, 10000))),
            Rat(5, 10000))

\* C16 (amended): for every method and every positive total AGB the
\* unrounded CO2e figure equals AGB x 0.47 x 1.20 x 44/12, that is, the
\* ratio CO2e / AGB is 2.068; the two-decimal fields agree with that
\* ratio up to their rounding.
C16_Co2eRatio ==
    PositiveAgb =>
       /\ c_locals.total_co2e
             = RMul(RMul(RMul(c_locals.total_agb, Rat(47, 100)), Rat(120, 100)), Rat(44, 12))
       /\ RDiv(c_locals.total_co2e, c_locals.total_agb) = Rat(2068, 1000)
       /\ Abs(1000 * c_result.baselineCarbonTCO2e - 2068 * c_result.totalAgbTonnes) <= 1534

C16_Witness ==
    /\ PositiveAgb
    /\ c_locals.branch = "hybrid"
    /\ c_locals.total_agb # RInt(125)
    /\ c_result.baselineCarbonTCO2e > 0
    /\ 1000 * c_result.baselineCarbonTCO2e # 2068 * c_result.totalAgbTonnes

\* the counts a measurement is given in turn
CountSamples == {-1, 0, 1, 4, 5, 6, 19, 20, 21, 44, 45, 46}

\* the field total of the inventory with measurement i counted k times
FieldTotalWithCount(trees, i, k) ==
    calculate_agb_from_field_data([trees EXCEPT ![i].count = k]).total_agb_tonnes

\* the result in hand is the field total of the inventory
FieldTotalReturned ==
    /\ c_pc = "returned"
    /\ c_variant = "script"
    /\ c_locals.branch = "field"

\* C17: the field-method total AGB is monotonically non-decreasing in the
\* count of any single measurement, the other measurements held fixed.
C17_MonotoneInCount ==
    FieldTotalReturned =>
       /\ c_locals.total_agb
             = calculate_agb_from_field_data(c_in.tree_inventory.trees).total_agb_tonnes
       /\ \A i \in 1..Len(c_in.tree_inventory.trees) : \A k \in CountSamples :
             LET count == c_in.tree_inventory.trees[i].count
                 other == FieldTotalWithCount(c_in.tree_inventory.trees, i, k)
             IN  /\ k >= count => RLeq(c_locals.total_agb, other)
                 /\ k <= count => RLeq(other, c_locals.total_agb)

C17_Witness ==
    /\ FieldTotalReturned
    /\ Len(c_in.tree_inventory.trees) = 2
    /\ c_in.tree_inventory.trees[1].count = 5
    /\ ~Skipped(c_in.tree_inventory.trees[1])
    /\ Skipped(c_in.tree_inventory.trees[2])
    /\ RLess(c_locals.total_agb,
             FieldTotalWithCount(c_in.tree_inventory.trees, 1, 6))

\* ---------------------------------------------------------------------
\* Further claims about analyze_deforestation
\* ---------------------------------------------------------------------
\* a result computed from the two pixel sums
Computed == d_result.returned /\ ~d_result.warning

\* C18: deforestationPercent is lost / initial x 100 (to two decimals)
\* when the initial forest area is positive; when it is zero the result
\* reports 0 and compliant = true and no division error is raised;
\* deforestationPercent is never negative.
C18_PercentFormula ==
    /\ (Computed /\ SumOf(d_in.initial) > 0) =>
          d_result.deforestationPercent
             = Round(Rat(SumOf(d_in.loss) * 100, SumOf(d_in.initial)), 2)
    /\ (Computed /\ SumOf(d_in.initial) = 0) =>
          d_result.deforestationPercent = 0 /\ d_result.compliant
    /\ d_result.returned => d_result.deforestationPercent >= 0
    /\ d_raised.cls \in {"None", "EEException"}

C18_Witness ==
    /\ Computed
    /\ d_variant = "script"
    /\ SumOf(d_in.initial) = 0
    /\ SumOf(d_in.loss) = 1000
    /\ d_result.deforestationPercent = 0
    /\ d_result.compliant

\* ---------------------------------------------------------------------
\* Claims about the remote calls of the estimation engine
\* ---------------------------------------------------------------------
\* the vegetation-index query of calculate_agb_from_satellite was made and
\* failed with an error the resilient executor retries
NdviQueryFailedRetryably ==
    /\ c_pc # "idle"
    /\ c_variant = "script"
    /\ ~(c_in.method = "field" /\ HasInventory(c_in.tree_inventory))
    /\ c_in.area.status = "ok"
    /\ c_in.size.status = "ok"
    /\ c_in.size.value > 0
    /\ c_in.ndvi.status = "fail"
    /\ CaughtAsEE(c_in.ndvi.error)
    /\ IsRetryableMsg(Lower(c_in.ndvi.error.msg))

\* C19: the remote statistics calls go through the resilient executor: a
\* retryable failure (timeout, rate limit, quota) of the vegetation-index
\* query does not fail the analysis on its first occurrence.
C19_RetryableFailureNotFatal ==
    NdviQueryFailedRetryably => c_pc = "returned" /\ c_raised = NoError

\* ---------------------------------------------------------------------
\* Claims about the hybrid method
\* ---------------------------------------------------------------------
\* the hybrid branch returned for an inventory none of whose measurements
\* was counted
HybridWithoutTrees ==
    /\ c_pc = "returned"
    /\ c_variant = "script"
    /\ c_locals.branch = "hybrid"
    /\ c_result.treesAnalyzed = 0

\* what calculate_agb_from_satellite estimated for the call in hand
SatelliteEstimate ==
    calculate_agb_from_satellite(c_in.area, c_in.size, c_in.ndvi).total_agb_tonnes

\* C20 (as stated): in the hybrid method, when the inventory yields
\* treesAnalyzed = 0 the field weight is exactly 0.3 (not 0) and the
\* hybrid total AGB is the satellite estimate.
C20_Original ==
    HybridWithoutTrees =>
       /\ c_locals.field_weight = Rat(3, 10)
       /\ c_locals.total_agb = SatelliteEstimate

\* C20 (amended): in the hybrid method, when the inventory yields
\* treesAnalyzed = 0 the field weight is exactly 0.3 (not 0), the field
\* estimate is 0, and the hybrid total AGB is 0.7 of the satellite
\* estimate.
C20_HybridWithoutTrees ==
    HybridWithoutTrees =>
       /\ c_locals.field_weight = Rat(3, 10)
       /\ calculate_agb_from_field_data(c_in.tree_inventory.trees).total_agb_tonnes
             = RInt(0)
       /\ c_locals.total_agb = RMul(SatelliteEstimate, Rat(7, 10))

C20_Witness ==
    /\ HybridWithoutTrees
    /\ RLess(RInt(0), SatelliteEstimate)
    /\ RLess(c_locals.total_agb, SatelliteEstimate)
    /\ c_result.confidence = "high"

\* the hybrid branch returned a result
HybridReturned ==
    /\ c_pc = "returned"
    /\ c_variant = "script"
    /\ c_locals.branch = "hybrid"

\* the field total of the call in hand
FieldEstimate ==
    calculate_agb_from_field_data(c_in.tree_inventory.trees).total_agb_tonnes

\* the weight as a function of the number of analyzed trees
FieldWeightLaw ==
    \A n \in 0..MaxAnalyzed :
       /\ RLeq(Rat(3, 10), FieldWeight(n))
       /\ RLeq(FieldWeight(n), Rat(7, 10))
       /\ RLeq(FieldWeight(n), FieldWeight(n + 1))
       /\ (n >= 40) <=> (FieldWeight(n) = Rat(7, 10))
       /\ n <= 40 => FieldWeight(n) = Rat(30 + n, 100)

\* C21: in the hybrid method, for every treesAnalyzed >= 0 the field weight
\* is min(0.7, 0.3 + treesAnalyzed/100): it lies in [0.3, 0.7], is
\* non-decreasing in treesAnalyzed, reaches the cap 0.7 from 40 trees on,
\* the two weights sum to 1, and the hybrid total AGB lies between the
\* field total and the satellite total.
C21_HybridWeight ==
    /\ FieldWeightLaw
    /\ (HybridReturned /\ c_result.treesAnalyzed >= 0) =>
          LET w == c_locals.field_weight
              lo == RMin(FieldEstimate, SatelliteEstimate)
              hi == RMax(FieldEstimate, SatelliteEstimate)
          IN  /\ w = FieldWeight(c_result.treesAnalyzed)
              /\ c_locals.total_agb
                    = RAdd(RMul(FieldEstimate, w),
                           RMul(SatelliteEstimate, RSub(RInt(1), w)))
              /\ RAdd(w, RSub(RInt(1), w)) = RInt(1)
              /\ RLeq(lo, c_locals.total_agb)
              /\ RLeq(c_locals.total_agb, hi)

\* the cap is reached at exactly 40 analyzed trees, and the total lies
\* strictly between two different estimates
C21_Witness ==
    /\ HybridReturned
    /\ c_result.treesAnalyzed = 40
    /\ c_locals.field_weight = Rat(7, 10)
    /\ RLess(SatelliteEstimate, c_locals.total_agb)
    /\ RLess(c_locals.total_agb, FieldEstimate)

\* ---------------------------------------------------------------------
\* Claims about the field method
\* ---------------------------------------------------------------------
\* the field method ran, in either variant
FieldMethodSelected ==
    /\ c_pc # "idle"
    /\ HasInventory(c_in.tree_inventory)
    /\ c_variant = "script" => c_in.method = "field"

FieldMethodReturned == FieldMethodSelected /\ c_pc = "returned"

\* a measurement whose diameter or height is non-positive
NonPositive(tree) == tree.dbh_cm <= 0 \/ tree.height_m <= 0

\* the inventory without its i-th measurement
Without(trees, i) == SubSeq(trees, 1, i - 1) \o SubSeq(trees, i + 1, Len(trees))

\* the measurements with positive diameter and height
IsPositive(tree) == ~NonPositive(tree)
Counted(trees) == SelectSeq(trees, IsPositive)

\* kilograms and trees of measurements none of which is excluded
RECURSIVE SumKg(_)
SumKg(trees) ==
    IF trees = <<>> THEN RInt(0)
    ELSE RAdd(RMul(TreeAgbKg(Head(trees)), RInt(Head(trees).count)), SumKg(Tail(trees)))

RECURSIVE SumCount(_)
SumCount(trees) ==
    IF trees = <<>> THEN 0 ELSE Head(trees).count + SumCount(Tail(trees))

\* C22: in the field method a measurement whose diameter or height is
\* non-positive is excluded silently: it raises no error, adds nothing to
\* total AGB and nothing to treesAnalyzed, so the result equals that of the
\* inventory with this measurement removed.
C22_ExcludedSilently ==
    /\ (FieldMethodSelected /\ c_in.area.status = "ok") => c_pc = "returned"
    /\ FieldMethodReturned =>
          LET trees == c_in.tree_inventory.trees
          IN  /\ c_locals.total_agb = RDiv(SumKg(Counted(trees)), RInt(1000))
              /\ c_result.treesAnalyzed = SumCount(Counted(trees))
              /\ \A i \in 1..Len(trees) :
                    NonPositive(trees[i]) =>
                       LET rest == calculate_agb_from_field_data(Without(trees, i))
                       IN  /\ rest = calculate_agb_from_field_data(trees)
                           /\ c_locals.total_agb = rest.total_agb_tonnes
                           /\ c_result.treesAnalyzed = rest.trees_analyzed

\* an excluded measurement with a positive count next to a counted one
C22_Witness ==
    /\ FieldMethodReturned
    /\ Len(c_in.tree_inventory.trees) = 2
    /\ NonPositive(c_in.tree_inventory.trees[1])
    /\ c_in.tree_inventory.trees[1].count = 20
    /\ ~NonPositive(c_in.tree_inventory.trees[2])
    /\ c_result.treesAnalyzed = 5
    /\ RLess(RInt(0), c_locals.total_agb)

\* C23: in the field method the confidence of the result is high if and
\* only if the total count of analyzed trees (the sum of count over the
\* measurements that were not excluded) is at least 10, and medium
\* otherwise, including when every measurement was excluded.
C23_FieldConfidence ==
    FieldMethodReturned =>
       LET analyzed == SumCount(Counted(c_in.tree_inventory.trees))
       IN  /\ c_result.treesAnalyzed = analyzed
           /\ c_result.confidence \in {"high", "medium"}
           /\ c_result.confidence = "high" <=> analyzed >= 10
           /\ Counted(c_in.tree_inventory.trees) = <<>> => c_result.confidence = "medium"

\* the counts of the inventory add up to 25, those analyzed to 5
C23_Witness ==
    /\ FieldMethodReturned
    /\ SumCount(c_in.tree_inventory.trees) = 25
    /\ c_result.treesAnalyzed = 5
    /\ c_result.confidence = "medium"

\* ---------------------------------------------------------------------
\* Claims about the historical images
\* ---------------------------------------------------------------------
\* the years of the entries of historicalImages ascend
EntriesAscend ==
    \A k \in 1..(Len(d_result.historicalImages) - 1) :
       d_result.historicalImages[k].year < d_result.historicalImages[k + 1].year

\* historicalImages has an entry for the i-th year of the range
HasEntry(i) ==
    \E k \in 1..Len(d_result.historicalImages) :
       d_result.historicalImages[k].year = YearOf(i)

\* every entry is for a year of the range
EntriesInRange ==
    \A k \in 1..Len(d_result.historicalImages) :
       \E i \in 1..Len(d_in.years) : d_result.historicalImages[k].year = YearOf(i)

\* the image collection of the year is non-empty
NonEmptyYear(y) == y.size.status = "ok" /\ y.size.value > 0

\* the image collection of the year is empty
ZeroImages(y) == y.size.status = "ok" /\ y.size.value = 0

\* no query of the call failed
NoQueryFailed ==
    /\ d_in.initial.status # "fail"
    /\ d_in.loss.status # "fail"
    /\ d_in.change.status # "fail"
    /\ \A i \in 1..Len(d_in.years) :
          d_in.years[i].size.status # "fail" /\ d_in.years[i].thumb.status # "fail"

\* C24 (as stated): historicalImages holds exactly one entry for each
\* calendar year of the analysed range whose image collection is non-empty,
\* no entry for a year with zero images, the entries in ascending year
\* order; a year with zero images raises no error and does not stop the
\* later years from being queried.
C24_Original ==
    /\ Computed =>
          /\ EntriesAscend
          /\ EntriesInRange
          /\ \A i \in 1..Len(d_in.years) : HasEntry(i) <=> NonEmptyYear(d_in.years[i])
    /\ (d_pc # "idle" /\ NoQueryFailed) => d_pc = "returned"

\* C24 (amended): historicalImages holds exactly one entry for each
\* calendar year of the analysed range whose image collection is non-empty
\* and whose thumbnail was generated, no entry for a year with zero images,
\* the entries in ascending year order; a year with zero images raises no
\* error and does not stop the later years from being queried. In the
\* script a year whose size or thumbnail query fails is left out like a
\* year with zero images; in the local analyzer such a failure ends the
\* analysis with the exception.
C24_HistoricalImages ==
    /\ Computed =>
          /\ EntriesAscend
          /\ EntriesInRange
          /\ \A i \in 1..Len(d_in.years) :
                /\ HasEntry(i) <=>
                      (NonEmptyYear(d_in.years[i]) /\ d_in.years[i].thumb.status = "ok")
                /\ ZeroImages(d_in.years[i]) => ~HasEntry(i)
    /\ (d_pc # "idle" /\ NoQueryFailed) => d_pc = "returned"
    /\ (d_pc = "raised") => (d_variant = "local" /\ ~NoQueryFailed)

\* the first year has zero images, the next one has its entry
C24_Witness ==
    /\ Computed
    /\ d_variant = "script"
    /\ Len(d_in.years) = 2
    /\ ZeroImages(d_in.years[1])
    /\ NonEmptyYear(d_in.years[2])
    /\ d_result.historicalImages = <<[year |-> YearOf(2), url |-> 1]>>

\* ---------------------------------------------------------------------
\* Further claims about batch_process.main
\* ---------------------------------------------------------------------
\* the loop over the farm files has ended
LoopEnded == b_pc \in {"summary", "done"}

\* the farm files are in ascending order of name
InputSorted ==
    \A i, j \in 1..Len(farm_files) :
       i < j => NameLess(FileName(farm_files[i]), FileName(farm_files[j]))

\* the farms started so far are the first files of the input, in order,
\* each with its row
PrefixOfInput ==
    /\ Len(started) <= Len(farm_files)
    /\ Len(results) = Len(started)
    /\ \A i \in 1..Len(started) :
          /\ started[i] = FileName(farm_files[i])
          /\ results[i].filename = started[i]

\* C25: the batch orchestrator processes farm files one at a time in sorted
\* input order; a failing farm aborts only that farm: with the
\* continue-on-error policy every file is processed, without it the run
\* stops after the first farm whose result has success = false, so the
\* results list is the prefix of the input that ends with that failure, and
\* the summary is still produced.
C25_BatchPolicy ==
    /\ InputSorted
    /\ PrefixOfInput
    /\ b_pc = "loop" => b_next = Len(started) + 1
    /\ (b_pc = "loop" /\ ~continue_on_error) =>
          \A i \in 1..Len(results) : results[i].success
    /\ (LoopEnded /\ continue_on_error) => Len(results) = Len(farm_files)
    /\ (LoopEnded /\ ~continue_on_error) =>
          /\ Len(results) >= 1
          /\ \A i \in 1..(Len(results) - 1) : results[i].success
          /\ Len(results) < Len(farm_files) => ~results[Len(results)].success
    /\ b_pc = "done" => summary.produced /\ summary.results = results

\* a run without the policy, stopped by its second farm, with its summary
C25_Witness ==
    /\ b_pc = "done"
    /\ ~continue_on_error
    /\ Len(farm_files) = 3
    /\ Len(results) = 2
    /\ results[1].success
    /\ ~results[2].success
    /\ summary.produced
    /\ summary.totalFarms = 2

\* a run with the policy goes past a failed farm
C25_ContinueWitness ==
    /\ b_pc = "done"
    /\ continue_on_error
    /\ Len(results) = 3
    /\ ~results[1].success
    /\ results[3].success

\* ---------------------------------------------------------------------
\* Further claims about process_farm
\* ---------------------------------------------------------------------
\* process_farm was called and is over
ProcessFarmDone == f_pc = "done" /\ f_in.driver = "process_farm"

\* the first shape: success, no error, the document written
ShapeSuccess ==
    /\ f_out.row.success
    /\ ~f_out.row.error.some
    /\ f_out.written
    /\ f_out.row.outputFile = String(OutputFilename(f_in.file.stem))

\* the second shape: no success, an error string, nothing written
ShapeFailure ==
    /\ ~f_out.row.success
    /\ f_out.row.error.some
    /\ ~f_out.written
    /\ ~f_out.row.outputFile.some

\* the farm could not be loaded or normalized
LoadFailed == ~load_farm_json(f_in.file).ok

\* the farm was loaded and its area could not be measured
MeasureFailed ==
    /\ load_farm_json(f_in.file).ok
    /\ \/ ~CoordsAddressable(load_farm_json(f_in.file).polygon)
       \/ f_in.ans.area.status = "fail"

\* C26: process_farm never lets a failure escape as an exception and always
\* returns a result in one of two shapes: success = true with error null
\* and the output file written, or success = false with a non-null error
\* string; a failure while loading, normalizing or measuring the farm gives
\* the second shape.
C26_TwoShapes ==
    ProcessFarmDone =>
       /\ f_out.escaped = NoError
       /\ f_out.row.filename = FileName(f_in.file)
       /\ ShapeSuccess \/ ShapeFailure
       /\ LoadFailed =>
             /\ ShapeFailure
             /\ f_out.row.error = String(load_farm_json(f_in.file).raised.msg)
             /\ f_out.calls = <<>>
       /\ MeasureFailed =>
             /\ ShapeFailure
             /\ f_out.calls = <<>>
       /\ (~LoadFailed /\ ~MeasureFailed /\ f_in.ans.write = NoError) => ShapeSuccess

\* the area of a loaded farm could not be measured
C26_Witness ==
    /\ ProcessFarmDone
    /\ load_farm_json(f_in.file).ok
    /\ f_in.ans.area.status = "fail"
    /\ ShapeFailure
    /\ f_out.row.error = String(f_in.ans.area.error.msg)
    /\ f_out.row.name.some
    /\ ~f_out.row.areaHa.some

\* a farm whose file cannot be normalized
C26_LoadWitness == ProcessFarmDone /\ LoadFailed /\ ShapeFailure

\* ---------------------------------------------------------------------
\* Claims about the compliance counts of the batch summary
\* ---------------------------------------------------------------------
\* the deforestation branch of the i-th farm of the run failed
DeforestationFailed(i) == asked[i].deforestation.kind \in {"raise", "errdict"}

\* the deforestation branch of the i-th farm of the run was called
DeforestationCalled(i) ==
    /\ load_farm_json(farm_files[i]).ok
    /\ CoordsAddressable(load_farm_json(farm_files[i]).polygon)
    /\ asked[i].area.status = "ok"

\* the farms the JSON summary and the table count as compliant
JsonCompliant ==
    {i \in 1..Len(results) : results[i].eudrCompliant.some /\ results[i].eudrCompliant.flag}
TableCompliant == {i \in JsonCompliant : results[i].success}

\* C27: in the batch summary a farm whose deforestation branch failed
\* (raised, or returned an object with an error field) is never counted as
\* EUDR compliant: its eudrCompliant stays null and it adds nothing to the
\* compliant counts of the table and of the JSON summary.
C27_FailedNotCompliant ==
    /\ Len(asked) = Len(results)
    /\ \A i \in 1..Len(results) :
          (DeforestationCalled(i) /\ DeforestationFailed(i)) =>
             /\ ~results[i].eudrCompliant.some
             /\ ~results[i].deforestationPercent.some
             /\ i \notin JsonCompliant
    /\ summary.produced =>
          /\ summary.eudrCompliant = Cardinality(JsonCompliant)
          /\ summary.compliant_count = Cardinality(TableCompliant)
          /\ \A i \in JsonCompliant :
                /\ DeforestationCalled(i)
                /\ asked[i].deforestation.kind = "ok"
                /\ asked[i].deforestation.v.flag

\* a summary over a farm whose deforestation branch raised, next to a
\* compliant one
C27_Witness ==
    /\ b_pc = "done"
    /\ summary.produced
    /\ Len(results) = 2
    /\ DeforestationCalled(1)
    /\ asked[1].deforestation.kind = "raise"
    /\ results[1].success
    /\ ~results[1].eudrCompliant.some
    /\ results[2].success
    /\ results[2].eudrCompliant.flag
    /\ summary.eudrCompliant = 1
    /\ summary.compliant_count = 1

\* ---------------------------------------------------------------------
\* Further claims about retry_ee_operation
\* ---------------------------------------------------------------------
\* every invocation but the last failed with a retryable error
EarlierAllRetryable ==
    \A i \in 1..(Len(outcomes) - 1) : RetryableFailure(outcomes[i])

\* the last invocation made so far succeeded
LastSucceeded == outcomes # <<>> /\ outcomes[Len(outcomes)].ok

\* C28: retry_ee_operation returns the result of the first invocation that
\* succeeds and invokes the operation no further: if the first k - 1
\* invocations fail with retryable errors and invocation k <= max_retries
\* succeeds, the operation is invoked exactly k times and the k-th result is
\* returned unchanged.
C28_FirstSuccessReturned ==
    /\ calls = Len(outcomes)
    /\ \A i \in 1..(Len(outcomes) - 1) : ~outcomes[i].ok
    /\ LastSucceeded <=> r_pc = "returned"
    /\ r_pc = "returned" =>
          /\ EarlierAllRetryable
          /\ calls <= max_retries
          /\ r_result = outcomes[calls].value
          /\ r_raised = NoError
          /\ Len(waits) = calls - 1
    /\ (/\ r_pc # "idle"
        /\ \A i \in 1..Len(outcomes) : RetryableFailure(outcomes[i])
        /\ Len(outcomes) < max_retries) => r_pc \in {"try", "sleep"}

\* the third invocation is the first to succeed
C28_Witness ==
    /\ r_pc = "returned"
    /\ max_retries = 3
    /\ calls = 3
    /\ RetryableFailure(outcomes[1])
    /\ RetryableFailure(outcomes[2])
    /\ outcomes[1].error # outcomes[2].error
    /\ r_result = "v2"

\* C29: when retry_ee_operation is called with max_retries <= 0 the
\* operation is never invoked and the call ends with a RuntimeError, not
\* with a result.
C29_NoAttemptsRuntimeError ==
    (r_pc # "idle" /\ max_retries <= 0) =>
       /\ r_pc = "raised"
       /\ calls = 0
       /\ outcomes = <<>>
       /\ waits = <<>>
       /\ log = <<>>
       /\ r_result = None
       /\ r_raised.cls = "RuntimeError"
       /\ r_raised = RuntimeError(operation_name, max_retries)

C29_Witness ==
    /\ r_pc = "raised"
    /\ max_retries = -1
    /\ operation_name = "ndvi"
    /\ calls = 0
    /\ r_raised.cls = "RuntimeError"

\* ---------------------------------------------------------------------
\* Claims about the satellite method
\* ---------------------------------------------------------------------
\* the AGB per hectare of this index is in the range the rule allows
InAgbRange(ndvi_mean) ==
    LET agb_per_ha == AgbPerHaFromNdvi(ndvi_mean)
    IN  /\ RLeq(RInt(5), agb_per_ha)
        /\ RLeq(agb_per_ha, RInt(200))
        /\ RLess(Rat(3, 10), ndvi_mean) => RLeq(RInt(20), agb_per_ha)
        /\ RLeq(ndvi_mean, Rat(3, 10)) => RLeq(agb_per_ha, RInt(15))

\* the rule over the indices -1.50, -1.49, ..., 1.50
AgbRangeLaw ==
    \A h \in (-MaxNdviHundredths)..MaxNdviHundredths : InAgbRange(Rat(h, 100))

\* the satellite method returned an estimate derived from the index
SatelliteFromNdvi ==
    /\ c_pc = "returned"
    /\ c_locals.branch = "satellite"
    /\ c_locals.sat_method \in {"ndvi_correlation", "ndvi"}

\* C30: for every mean vegetation index returned by the provider, negative
\* values and values above 1 included, the AGB per hectare derived by the
\* satellite method lies in [5, 200]: it is at least 20 when the index is
\* above 0.3, and lies in [5, 15] when the index is at most 0.3.
C30_AgbPerHaRange ==
    /\ AgbRangeLaw
    /\ SatelliteFromNdvi =>
          /\ c_locals.agb_per_ha = AgbPerHaFromNdvi(NdviMean(c_in.ndvi))
          /\ InAgbRange(NdviMean(c_in.ndvi))
          /\ RLeq(RInt(5), c_locals.agb_per_ha)
          /\ RLeq(c_locals.agb_per_ha, RInt(200))
          /\ c_locals.total_agb
                = RMul(c_locals.agb_per_ha, Rat(c_in.area.value, 10000))

\* an index above 1 meets the cap
C30_Witness ==
    /\ SatelliteFromNdvi
    /\ c_in.ndvi.status = "ok"
    /\ c_in.ndvi.value = Rat(6, 5)
    /\ c_locals.agb_per_ha = RInt(200)
    /\ c_result.agbTonnesPerHa = 20000

\* a negative index meets the floor
C30_FloorWitness ==
    /\ SatelliteFromNdvi
    /\ c_in.ndvi.status = "ok"
    /\ RLess(c_in.ndvi.value, RInt(0))
    /\ c_locals.agb_per_ha = RInt(5)

====
